---- MODULE Spec2Model ----
(***************************************************************************)
(* Gophermart (GoFirmart): the loyalty-points gateway.                     *)
(*                                                                         *)
(* The model covers the PostgreSQL store (users, orders, withdrawals,      *)
(* processing_queue, with the row locks its transactions take), the        *)
(* accrual worker pool with the scoring client's rate-limit deadline, the  *)
(* order submission service with Luhn validation, and the withdrawal       *)
(* transaction.                                                            *)
(*                                                                         *)
(* Strings are sequences of Unicode code points; money is counted in the   *)
(* smallest unit of the NUMERIC(18,2) columns.                             *)
(***************************************************************************)
EXTENDS Integers, Sequences, FiniteSets, TLC

VARIABLES
    users,          \* gofirmart.users: id -> [balance, withdrawn]
    orders,         \* gofirmart.orders: number -> [user_id, status, accrual, accrual_applied]
    queue,          \* gofirmart.processing_queue: number -> [status, last_check]
    withdrawals,    \* gofirmart.withdrawals: the rows, in insertion order
    locks,          \* row locks held by open transactions: [tbl, key, by]
    rateLimitUntil, \* AccrualClient.rateLimitUntil
    now,            \* the wall clock, in seconds
    wk,             \* the workers of the pool
    sub,            \* SubmitOrder calls
    wd,             \* Withdraw calls
    credits,        \* history: number -> how many times its accrual was added to a balance
    credited,       \* history: user -> the total ever added to the balance
    dequeued,       \* history: the numbers whose queue entry was deleted
    luhnIn,         \* the argument of a Luhn call
    luhnOut,        \* its result
    pool,           \* the WorkerPool: [workers, cancelled, waited]
    tok,            \* a token, who made it, and what ValidateToken returned for it
    reqs,           \* requests to the user routes, behind authFromCookie
    logins,         \* gofirmart.users.login, by id, and the id sequence
    reg,            \* Register calls
    mem             \* the memoryOrderRepo of the worker tests, and what the last call returned

vars == <<users, orders, queue, withdrawals, locks, rateLimitUntil, now,
          wk, sub, wd, credits, credited, dequeued, luhnIn, luhnOut, pool,
          tok, reqs, logins, reg, mem>>

----------------------------------------------------------------------------
(* Bounds *)

MaxLuhnLen == 3
MaxRawLen == 2
MaxTime == 2

----------------------------------------------------------------------------
(* Strings *)

\* A nullable column or pointer: <<>> is NULL (nil), <<v>> holds v.
NULL == <<>>
Some(v) == <<v>>
Val(x) == x[1]
None == "none"

\* '0' .. '9'
AsciiDigits == 48..57
\* U+0660 .. U+0669, ARABIC-INDIC DIGIT ZERO .. NINE (category Nd)
ArabicIndicDigits == 1632..1641

\* unicode.IsDigit
IsDigit(r) == r \in AsciiDigits \/ r \in ArabicIndicDigits

\* unicode.IsSpace, as strings.TrimSpace uses it
IsSpace(r) == r \in {9, 10, 11, 12, 13, 32, 133, 160}

\* The bytes of a Go string holding code point r (UTF-8)
Utf8(r) ==
    IF r < 128 THEN <<r>>
    ELSE IF r < 2048 THEN <<192 + (r \div 64), 128 + (r % 64)>>
    ELSE <<224 + (r \div 4096), 128 + ((r \div 64) % 64), 128 + (r % 64)>>

RECURSIVE Bytes(_)
Bytes(s) == IF s = <<>> THEN <<>> ELSE Utf8(Head(s)) \o Bytes(Tail(s))

RECURSIVE TrimLeft(_)
TrimLeft(s) ==
    IF s # <<>> /\ IsSpace(Head(s)) THEN TrimLeft(Tail(s)) ELSE s

RECURSIVE TrimRight(_)
TrimRight(s) ==
    IF s # <<>> /\ IsSpace(s[Len(s)]) THEN TrimRight(SubSeq(s, 1, Len(s) - 1)) ELSE s

\* strings.TrimSpace
TrimSpace(s) == TrimRight(TrimLeft(s))

\* All sequences over S of length at most n
SeqUpTo(S, n) == UNION {[1..k -> S] : k \in 0..n}

----------------------------------------------------------------------------
(* Luhn and ValidateOrderNumber (service/order.go) *)

\* The loop of Luhn over the bytes b[1..i], with the running sum and the
\* double flag: d := int(number[i] - '0') is a byte subtraction (mod 256).
RECURSIVE LuhnLoop(_, _, _, _)
LuhnLoop(b, i, sum, double) ==
    IF i < 1 THEN sum
    ELSE LET d0 == (b[i] - 48 + 256) % 256
             d1 == IF double THEN 2 * d0 ELSE d0
             d  == IF double /\ d1 > 9 THEN d1 - 9 ELSE d1
         IN  LuhnLoop(b, i - 1, sum + d, ~double)

\* A variant whose double flag starts true.
Luhn_DoubleFirst(number) ==
    LET b == Bytes(number) IN LuhnLoop(b, Len(b), 0, TRUE) % 10 = 0

Luhn(number) ==
    LET b == Bytes(number) IN LuhnLoop(b, Len(b), 0, FALSE) % 10 = 0

ErrInvalidOrderNumber == "ErrInvalidOrderNumber"
ErrOrderOwnedByAnother == "ErrOrderOwnedByAnother"
ErrInvalidWithdrawAmount == "ErrInvalidWithdrawAmount"
ErrInsufficientFunds == "ErrInsufficientFunds"
ErrOrderExists == "ErrOrderExists"
ErrOrderNotFound == "ErrOrderNotFound"
ErrNoQueueItems == "ErrNoQueueItems"
ErrInfra == "ErrInfra"
Nil == "nil"

ValidateOrderNumber(number) ==
    LET trimmed == TrimSpace(number) IN
    IF trimmed = <<>> THEN ErrInvalidOrderNumber
    ELSE IF \E i \in 1..Len(trimmed) : ~IsDigit(trimmed[i]) THEN ErrInvalidOrderNumber
    ELSE IF ~Luhn(trimmed) THEN ErrInvalidOrderNumber
    ELSE Nil

----------------------------------------------------------------------------
(* The store (repo/order_pg.go, repo/withdraw_pg.go) *)

Users == {1, 2}

statusNew == "NEW"
statusProcessing == "PROCESSING"
statusInvalid == "INVALID"
statusProcessed == "PROCESSED"
statusRegistered == "REGISTERED"

\* Row locks. A transaction is named after the call that opened it.
Locked(tbl, key) == \E l \in locks : l.tbl = tbl /\ l.key = key
Lock(tbl, key, by) == [tbl |-> tbl, key |-> key, by |-> by]
HeldBy(by) == {l \in locks : l.by = by}

\* PGOrderRepository.GetByNumber: the row, or nil with ErrOrderNotFound
GetByNumber(number) ==
    IF number \in DOMAIN orders THEN Some(orders[number]) ELSE NULL

\* A variant whose INSERT overwrites the row on a primary-key collision.
CreateOrder_Overwrite(order) ==
    [err |-> Nil,
     orders |-> [n \in DOMAIN orders \cup {order.number} |->
        IF n = order.number
        THEN [user_id |-> order.user_id, status |-> order.status,
              accrual |-> NULL, accrual_applied |-> FALSE]
        ELSE orders[n]]]

\* PGOrderRepository.CreateOrder: ErrOrderExists on a primary-key collision,
\* otherwise the table after the INSERT.
CreateOrder(order) ==
    IF order.number \in DOMAIN orders
    THEN [err |-> ErrOrderExists, orders |-> orders]
    ELSE [err |-> Nil,
          orders |-> [n \in DOMAIN orders \cup {order.number} |->
            IF n = order.number
            THEN [user_id |-> order.user_id, status |-> order.status,
                  accrual |-> NULL, accrual_applied |-> FALSE]
            ELSE orders[n]]]

\* PGOrderRepository.UpsertProcessing: INSERT (number, NULL, status)
\* ON CONFLICT (number) DO UPDATE SET status.
UpsertProcessing(number, status) ==
    [n \in DOMAIN queue \cup {number} |->
        IF n # number THEN queue[n]
        ELSE IF number \in DOMAIN queue THEN [queue[n] EXCEPT !.status = status]
        ELSE [status |-> status, last_check |-> NULL]]

\* A variant without COALESCE: ORDER BY last_check ASC puts NULL last.
SortKey_NullsLast(n) ==
    IF queue[n].last_check = NULL THEN 1000000 ELSE Val(queue[n].last_check)

\* A variant that orders by last_check DESC: the most recently checked first.
SortKey_Newest(n) == IF queue[n].last_check = NULL THEN 0 ELSE 0 - Val(queue[n].last_check)

\* ORDER BY COALESCE(last_check, 'epoch')
SortKey(n) == IF queue[n].last_check = NULL THEN 0 ELSE Val(queue[n].last_check)

\* The rows the SELECT of ClaimNextForProcessing may return: status NEW or
\* PROCESSING, not locked (SKIP LOCKED), first in the order of last_check.
ClaimCandidates ==
    LET eligible == {n \in DOMAIN queue :
                        /\ queue[n].status \in {statusNew, statusProcessing}
                        /\ ~Locked("queue", n)}
    IN  {n \in eligible : \A m \in eligible : SortKey(n) <= SortKey(m)}

\* PGOrderRepository.UpdateOrderStatus: one UPDATE, with or without accrual.
UpdateOrderStatus(number, status, accrual) ==
    IF number \notin DOMAIN orders THEN orders
    ELSE IF accrual # NULL
    THEN [orders EXCEPT ![number].status = status,
                        ![number].accrual = accrual,
                        ![number].accrual_applied = FALSE]
    ELSE [orders EXCEPT ![number].status = status,
                        ![number].accrual_applied = FALSE]

\* A variant that leaves last_check as it was.
UpdateProcessingStatus_NoTimestamp(number, status, checkedAt) ==
    IF number \notin DOMAIN queue THEN queue
    ELSE [queue EXCEPT ![number].status = status]

\* A variant that inserts the row when it is missing.
UpdateProcessingStatus_Upsert(number, status, checkedAt) ==
    [n \in DOMAIN queue \cup {number} |->
        IF n = number THEN [status |-> status, last_check |-> Some(checkedAt)]
        ELSE queue[n]]

\* PGOrderRepository.UpdateProcessingStatus: one UPDATE; no row, no effect.
UpdateProcessingStatus(number, status, checkedAt) ==
    IF number \notin DOMAIN queue THEN queue
    ELSE [queue EXCEPT ![number] = [status |-> status, last_check |-> Some(checkedAt)]]

\* A variant whose DELETE removes nothing.
DeleteProcessingEntry_Keeps(number) == queue

\* PGOrderRepository.DeleteProcessingEntry
DeleteProcessingEntry(number) ==
    [n \in DOMAIN queue \ {number} |-> queue[n]]

\* A variant that sets the flag and leaves status and accrual as they were.
ApplyOrderAccrualOrders_FlagOnly(number, accrual, applied) ==
    IF applied THEN orders
    ELSE [orders EXCEPT ![number].accrual_applied = TRUE]

\* PGOrderRepository.ApplyOrderAccrual after its SELECT ... FOR UPDATE read
\* (userID, applied): the orders table the transaction commits.
ApplyOrderAccrualOrders(number, accrual, applied) ==
    IF applied THEN orders
    ELSE [orders EXCEPT ![number].status = statusProcessed,
                        ![number].accrual = Some(accrual),
                        ![number].accrual_applied = TRUE]

\* A variant that skips the `if applied` return and credits again.
ApplyOrderAccrualUsers_CreditAgain(userID, accrual, applied) ==
    [users EXCEPT ![userID].balance = @ + accrual]

\* ... and the users table it commits: balance = balance + accrual.
ApplyOrderAccrualUsers(userID, accrual, applied) ==
    IF applied THEN users
    ELSE [users EXCEPT ![userID].balance = @ + accrual]

----------------------------------------------------------------------------
(* The scoring client (service/accrual.go) *)

\* AccrualClient.WaitIfRateLimited returns nil: the deadline is the zero time,
\* or it has passed, or nothing is left to wait.
RateLimitPassed == rateLimitUntil = 0 \/ now > rateLimitUntil \/ rateLimitUntil - now <= 0

\* A variant that stores t whatever the deadline is.
SetRateLimitUntil_Overwrite(t) == t

\* AccrualClient.SetRateLimitUntil
SetRateLimitUntil(t) == IF t > rateLimitUntil THEN t ELSE rateLimitUntil

DefaultRetryAfter == 60

\* strings.ToUpper on the status of the payload
ToUpper(s) ==
    CASE s = "processed" -> "PROCESSED"
      [] s = "invalid" -> "INVALID"
      [] s = "registered" -> "REGISTERED"
      [] s = "processing" -> "PROCESSING"
      [] OTHER -> s

\* processNumber: status := strings.ToUpper(payload.Status); "" is PROCESSING
NormalizeStatus(s) == IF ToUpper(s) = "" THEN statusProcessing ELSE ToUpper(s)

\* What the scoring service may answer. code 0 is a transport error; a 200
\* whose body does not decode has status BadBody.
BadBody == "<undecodable>"
Response(code, status, accrual, retryAfter) ==
    [code |-> code, status |-> status, accrual |-> accrual, retryAfter |-> retryAfter]
NoResponse == Response(0, "", NULL, NULL)

AccrualValues == {100}
PayloadStatuses == {"PROCESSED", "INVALID", "REGISTERED", "processing", ""}

OkResponses ==
    {Response(200, st, a, NULL) :
        st \in PayloadStatuses, a \in {Some(v) : v \in AccrualValues} \cup {NULL}}
TransientResponses ==
    {Response(c, "", NULL, NULL) : c \in {0, 204, 500, 503}}
        \cup {Response(200, BadBody, NULL, NULL)}
\* The last field is what resp.Header.Get("Retry-After") returns: the empty
\* string when the header is missing.
RateLimitResponses == {Response(429, "", NULL, r) : r \in {<<>>, <<49>>}}

----------------------------------------------------------------------------
(* Tokens (service/auth.go) *)

ErrInvalidToken == "ErrInvalidToken"
ErrLoginTaken == "ErrLoginTaken"
ErrInvalidCredentials == "ErrInvalidCredentials"
ErrUserExists == "ErrUserExists"

\* "gofirmart-secret"
defaultTokenSecret ==
    <<103, 111, 102, 105, 114, 109, 97, 114, 116, 45, 115, 101, 99, 114, 101, 116>>

\* NewAuthManager(userRepo, cfg.TokenSecret)
AuthManager == [secret |-> defaultTokenSecret]

\* %d of a non-negative integer
RECURSIVE Digits(_)
Digits(n) == IF n < 10 THEN <<48 + n>> ELSE Append(Digits(n \div 10), 48 + (n % 10))

\* fmt.Sprintf("%d", id)
FormatInt(id) == IF id < 0 THEN <<45>> \o Digits(0 - id) ELSE Digits(id)

RECURSIVE DigitsValue(_)
DigitsValue(s) ==
    IF s = <<>> THEN 0 ELSE 10 * DigitsValue(SubSeq(s, 1, Len(s) - 1)) + (s[Len(s)] - 48)

\* strconv.ParseInt(s, 10, 64): an optional sign, then one or more of
\* '0'..'9'; NULL is the error. (The inputs stay far below 2^63.)
ParseInt(s) ==
    LET signed == s # <<>> /\ s[1] \in {43, 45}
        body == IF signed THEN Tail(s) ELSE s
    IN  IF body = <<>> \/ \E i \in 1..Len(body) : body[i] \notin AsciiDigits THEN NULL
        ELSE IF signed /\ s[1] = 45 THEN Some(0 - DigitsValue(body))
        ELSE Some(DigitsValue(body))

\* strconv.Atoi: ParseInt(s, 10, 0)
Atoi(s) == ParseInt(s)

\* parseRetryAfter: the trimmed header as a number of seconds; the default
\* when it is empty, not a number, zero or negative.
parseRetryAfter(value) ==
    LET v == TrimSpace(value) IN
    IF v = <<>> THEN DefaultRetryAfter
    ELSE LET sec == Atoi(v) IN
         IF sec = NULL \/ Val(sec) <= 0 THEN DefaultRetryAfter
         ELSE Val(sec)

\* sha256.Sum256, taken to be free of collisions: a digest is represented by
\* the bytes it was computed from.
Sum256(b) == b

HexDigit(d) == IF d < 10 THEN 48 + d ELSE 87 + d

\* fmt.Sprintf("%x", sum[:])
RECURSIVE Hex(_)
Hex(b) ==
    IF b = <<>> THEN <<>>
    ELSE <<HexDigit(Head(b) \div 16), HexDigit(Head(b) % 16)>> \o Hex(Tail(b))

\* The alphabet of base64.StdEncoding and its inverse (-1: not in it)
B64Char(v) ==
    IF v < 26 THEN 65 + v
    ELSE IF v < 52 THEN 97 + (v - 26)
    ELSE IF v < 62 THEN 48 + (v - 52)
    ELSE IF v = 62 THEN 43 ELSE 47

B64Val(c) ==
    IF c \in 65..90 THEN c - 65
    ELSE IF c \in 97..122 THEN c - 97 + 26
    ELSE IF c \in 48..57 THEN c - 48 + 52
    ELSE IF c = 43 THEN 62
    ELSE IF c = 47 THEN 63
    ELSE 0 - 1

\* base64.StdEncoding.EncodeToString
RECURSIVE EncodeToString(_)
EncodeToString(b) ==
    IF b = <<>> THEN <<>>
    ELSE IF Len(b) = 1
    THEN <<B64Char(b[1] \div 4), B64Char((b[1] % 4) * 16), 61, 61>>
    ELSE IF Len(b) = 2
    THEN <<B64Char(b[1] \div 4), B64Char((b[1] % 4) * 16 + b[2] \div 16),
           B64Char((b[2] % 16) * 4), 61>>
    ELSE <<B64Char(b[1] \div 4), B64Char((b[1] % 4) * 16 + b[2] \div 16),
           B64Char((b[2] % 16) * 4 + b[3] \div 64), B64Char(b[3] % 64)>>
            \o EncodeToString(SubSeq(b, 4, Len(b)))

\* The quantums of four characters, '=' padding only in the last one; the
\* bits left over in a padded quantum are not checked (StdEncoding is not
\* strict).
RECURSIVE DecodeQuantums(_)
DecodeQuantums(s) ==
    IF s = <<>> THEN Some(<<>>)
    ELSE IF Len(s) < 4 THEN NULL
    ELSE LET a == B64Val(s[1])
             b == B64Val(s[2])
             c == B64Val(s[3])
             d == B64Val(s[4])
         IN  IF a < 0 \/ b < 0 THEN NULL
             ELSE IF s[3] = 61
             THEN IF s[4] = 61 /\ Len(s) = 4 THEN Some(<<a * 4 + b \div 16>>) ELSE NULL
             ELSE IF c < 0 THEN NULL
             ELSE IF s[4] = 61
             THEN IF Len(s) = 4
                  THEN Some(<<a * 4 + b \div 16, (b % 16) * 16 + c \div 4>>)
                  ELSE NULL
             ELSE IF d < 0 THEN NULL
             ELSE LET rest == DecodeQuantums(SubSeq(s, 5, Len(s))) IN
                  IF rest = NULL THEN NULL
                  ELSE Some(<<a * 4 + b \div 16, (b % 16) * 16 + c \div 4, (c % 4) * 64 + d>>
                                \o Val(rest))

\* base64.StdEncoding.DecodeString: '\r' and '\n' are skipped; NULL is the
\* error.
DecodeString(s) == DecodeQuantums(SelectSeq(s, LAMBDA c : c \notin {10, 13}))

\* strings.SplitN(s, ":", 2)
SplitN2(s) ==
    IF \A i \in 1..Len(s) : s[i] # 58 THEN <<s>>
    ELSE LET i == CHOOSE j \in 1..Len(s) : s[j] = 58 /\ \A k \in 1..(j - 1) : s[k] # 58
         IN  <<SubSeq(s, 1, i - 1), SubSeq(s, i + 1, Len(s))>>

\* AuthManager.signatureForID: %x of SHA-256 of "<id>|<secret>"
signatureForID(m, id) == Hex(Sum256(FormatInt(id) \o <<124>> \o m.secret))

\* AuthManager.tokenForUser: base64 of "<id>:<signature>"
tokenForUser(m, id) == EncodeToString(FormatInt(id) \o <<58>> \o signatureForID(m, id))

InvalidToken == [id |-> 0, err |-> ErrInvalidToken]

\* A variant that does not compare the signature.
ValidateToken_AnySignature(m, token) ==
    IF token = <<>> THEN InvalidToken
    ELSE LET decoded == DecodeString(token) IN
    IF decoded = NULL THEN InvalidToken
    ELSE LET parts == SplitN2(Val(decoded)) IN
    IF Len(parts) # 2 THEN InvalidToken
    ELSE LET id == ParseInt(parts[1]) IN
    IF id = NULL THEN InvalidToken
    ELSE [id |-> Val(id), err |-> Nil]

\* AuthManager.ValidateToken
ValidateToken(m, token) ==
    IF token = <<>> THEN InvalidToken
    ELSE LET decoded == DecodeString(token) IN
    IF decoded = NULL THEN InvalidToken
    ELSE LET parts == SplitN2(Val(decoded)) IN
    IF Len(parts) # 2 THEN InvalidToken
    ELSE LET id == ParseInt(parts[1]) IN
    IF id = NULL THEN InvalidToken
    ELSE IF parts[2] # signatureForID(m, Val(id)) THEN InvalidToken
    ELSE [id |-> Val(id), err |-> Nil]

----------------------------------------------------------------------------
(* The initial state: the schema is migrated, the users are registered, the
   pool is started and no request is in flight. *)

\* Config.AccrualWorkers, the default of LoadConfig
AccrualWorkers == 3
Workers == 1..AccrualWorkers

MaxSubmits == 2
MaxWithdraws == 2
SubIds == 1..MaxSubmits
WdIds == 1..MaxWithdraws

\* retryAt records the end of the pause the worker's last 429 asked for
\* (the moment of the answer plus its Retry-After); claimedAt the moment of
\* its claim; ret what its last ApplyOrderAccrual returned ("true", "false"
\* or the error); until the moment the timer of its WaitIfRateLimited fires.
IdleWorker ==
    [pc |-> "loop", number |-> <<>>, resp |-> NoResponse, userID |-> 0, applied |-> FALSE,
     retryAt |-> 0, claimedAt |-> 0, ret |-> "", until |-> 0]
IdleSubmit ==
    [pc |-> "idle", userID |-> 0, raw |-> <<>>, number |-> <<>>,
     created |-> FALSE, err |-> None, raced |-> FALSE]
IdleWithdraw ==
    [pc |-> "idle", userID |-> 0, order |-> <<>>, amount |-> 0, balance |-> 0,
     err |-> None]

MaxRequests == 2
MaxRegisters == 2
ReqIds == 1..MaxRequests
RegIds == 1..MaxRegisters

\* kind: who made the token ("issued" by tokenForUser, "forged" from an id
\* part and a signature part, "raw" for any other string)
IdleToken ==
    [pc |-> "idle", kind |-> "", id |-> 0, idPart |-> <<>>, sigPart |-> <<>>,
     token |-> <<>>, out |-> [id |-> 0, err |-> None]]
\* called: the user id a read service was invoked with; body: what it returned
IdleRequest ==
    [pc |-> "idle", route |-> "", cookie |-> NULL, userID |-> 0, status |-> 0,
     called |-> NULL, body |-> {}]
\* began: where the id sequence stood when the call began
IdleRegister ==
    [pc |-> "idle", login |-> <<>>, password |-> <<>>, id |-> 0, err |-> None,
     token |-> <<>>, began |-> 0]

\* The users of the initial state are registered as "a" and "b"; the id
\* sequence of the SERIAL column stands after them.
InitAuth ==
    /\ tok = IdleToken
    /\ reqs = [q \in ReqIds |-> IdleRequest]
    /\ logins = [seq |-> Cardinality(Users), login |-> [u \in Users |-> <<96 + u>>]]
    /\ reg = [g \in RegIds |-> IdleRegister]

\* newMemoryOrderRepo: three empty maps. ret is what the last call on this
\* store returned, pgRet what the same call returned on PGOrderRepository.
NoResult == [number |-> <<>>, ok |-> FALSE, err |-> Nil]
newMemoryOrderRepo ==
    [orders |-> <<>>, queue |-> <<>>, balances |-> <<>>,
     calls |-> 0, ret |-> NoResult, pgRet |-> NoResult]

InitMemory == mem = newMemoryOrderRepo

InitStore ==
    /\ users = [u \in Users |-> [balance |-> 0, withdrawn |-> 0]]
    /\ orders = <<>>
    /\ queue = <<>>
    /\ withdrawals = <<>>
    /\ locks = {}
    /\ credits = <<>>
    /\ credited = [u \in Users |-> 0]
    /\ dequeued = {}

InitProcesses ==
    /\ rateLimitUntil = 0
    /\ now = 1
    /\ wk = [w \in Workers |-> IdleWorker]
    /\ sub = [s \in SubIds |-> IdleSubmit]
    /\ wd = [r \in WdIds |-> IdleWithdraw]

\* NewWorkerPool(orderRepo, client, workers, interval) and Start(ctx): the
\* context is live and Wait has not returned.
InitPool(workers) ==
    pool = [workers |-> workers, cancelled |-> FALSE, waited |-> FALSE]

Init ==
    /\ InitStore
    /\ InitMemory
    /\ InitProcesses
    /\ InitPool(AccrualWorkers)
    /\ InitAuth
    /\ luhnIn = <<>>
    /\ luhnOut = NULL

storeVars == <<users, orders, queue, withdrawals, locks, credits, credited, dequeued>>
pureVars == <<luhnIn, luhnOut>>
authVars == <<tok, reqs, logins, reg>>

\* The clock advances.
Tick ==
    /\ now < MaxTime
    /\ now' = now + 1
    /\ UNCHANGED <<storeVars, rateLimitUntil, wk, sub, wd, pureVars, pool, authVars, mem>>

----------------------------------------------------------------------------
(* The worker pool (service/worker.go) *)

Tx(w) == <<"worker", w>>

\* A variant whose loop does not look at the context.
WaitIfRateLimited_IgnoresCancel(w) ==
    /\ w <= pool.workers
    /\ wk[w].pc = "loop"
    /\ RateLimitPassed
    /\ wk' = [wk EXCEPT ![w].pc = "claim"]
    /\ UNCHANGED <<storeVars, rateLimitUntil, now, sub, wd, pureVars, pool, authVars, mem>>

\* runWorker, for a goroutine that Start has launched: the context is live
\* and WaitIfRateLimited returns nil.
WaitIfRateLimited(w) ==
    /\ w <= pool.workers
    /\ ~pool.cancelled
    /\ wk[w].pc = "loop"
    /\ RateLimitPassed
    /\ wk' = [wk EXCEPT ![w].pc = "claim"]
    /\ UNCHANGED <<storeVars, rateLimitUntil, now, sub, wd, pureVars, pool, authVars, mem>>

\* WaitIfRateLimited, the deadline read is still ahead: a timer is set for
\* the time that is left.
WaitStart(w) ==
    /\ w <= pool.workers
    /\ ~pool.cancelled
    /\ wk[w].pc = "loop"
    /\ ~RateLimitPassed
    /\ wk' = [wk EXCEPT ![w].pc = "wait", ![w].until = rateLimitUntil]
    /\ UNCHANGED <<storeVars, rateLimitUntil, now, sub, wd, pureVars, pool, authVars, mem>>

\* A variant that returns nil when its timer fires.
WaitTimer_NoReread(w) ==
    /\ wk[w].pc = "wait"
    /\ now >= wk[w].until
    /\ wk' = [wk EXCEPT ![w].pc = "claim", ![w].until = 0]
    /\ UNCHANGED <<storeVars, rateLimitUntil, now, sub, wd, pureVars, pool, authVars, mem>>

\* WaitIfRateLimited, the timer fires: the loop reads the deadline again.
WaitTimer(w) ==
    /\ wk[w].pc = "wait"
    /\ now >= wk[w].until
    /\ wk' = [wk EXCEPT ![w].pc = "loop", ![w].until = 0]
    /\ UNCHANGED <<storeVars, rateLimitUntil, now, sub, wd, pureVars, pool, authVars, mem>>

\* WaitIfRateLimited, ctx.Done() while the timer runs: it returns ctx.Err()
\* and runWorker returns.
WaitCancelled(w) ==
    /\ wk[w].pc = "wait"
    /\ pool.cancelled
    /\ wk' = [wk EXCEPT ![w].pc = "exited", ![w].until = 0]
    /\ UNCHANGED <<storeVars, rateLimitUntil, now, sub, wd, pureVars, pool, authVars, mem>>

\* ClaimNextForProcessing, the SELECT ... FOR UPDATE SKIP LOCKED: no row is
\* ErrNoQueueItems (runWorker sleeps), otherwise the row is locked.
ClaimSelect(w) ==
    /\ wk[w].pc = "claim"
    /\ IF ClaimCandidates = {}
       THEN /\ wk' = [wk EXCEPT ![w].pc = "sleep"]
            /\ UNCHANGED locks
       ELSE \E n \in ClaimCandidates :
            /\ wk' = [wk EXCEPT ![w].pc = "claimUpdate", ![w].number = n]
            /\ locks' = locks \cup {Lock("queue", n, Tx(w))}
    /\ UNCHANGED <<users, orders, queue, withdrawals, credits, credited, dequeued,
                   rateLimitUntil, now, sub, wd, pureVars, pool, authVars, mem>>

\* A variant whose transaction also updates the order's row before it
\* commits.
ClaimCommit_TouchesOrder(w) ==
    /\ wk[w].pc = "claimUpdate"
    /\ ~Locked("orders", wk[w].number)
    /\ queue' = [queue EXCEPT ![wk[w].number] =
                    [status |-> statusProcessing, last_check |-> Some(now)]]
    /\ locks' = locks \ HeldBy(Tx(w))
    /\ wk' = [wk EXCEPT ![w].pc = "get", ![w].claimedAt = now]
    /\ UNCHANGED <<users, orders, withdrawals, credits, credited, dequeued,
                   rateLimitUntil, now, sub, wd, pureVars, pool, authVars, mem>>

\* ClaimNextForProcessing, the UPDATE and the commit.
ClaimCommit(w) ==
    /\ wk[w].pc = "claimUpdate"
    /\ queue' = [queue EXCEPT ![wk[w].number] =
                    [status |-> statusProcessing, last_check |-> Some(now)]]
    /\ locks' = locks \ HeldBy(Tx(w))
    /\ wk' = [wk EXCEPT ![w].pc = "get", ![w].claimedAt = now]
    /\ UNCHANGED <<users, orders, withdrawals, credits, credited, dequeued,
                   rateLimitUntil, now, sub, wd, pureVars, pool, authVars, mem>>

\* processNumber: DoGet waits for the rate limit, then the scoring service
\* answers resp; the payload is decoded and its status normalised.
DoGet(w, resp) ==
    /\ wk[w].pc = "get"
    /\ RateLimitPassed
    /\ wk' = [wk EXCEPT ![w].pc = "handle",
                        ![w].resp = [resp EXCEPT !.status =
                            IF resp.code = 200 /\ resp.status # BadBody
                            THEN NormalizeStatus(resp.status) ELSE resp.status],
                        ![w].retryAt =
                            IF resp.code = 429 /\ now + parseRetryAfter(resp.retryAfter) > @
                            THEN now + parseRetryAfter(resp.retryAfter) ELSE @]
    /\ UNCHANGED <<storeVars, rateLimitUntil, now, sub, wd, pureVars, pool, authVars, mem>>

IsTransient(resp) ==
    \/ resp.code \notin {200, 429}
    \/ resp.code = 200 /\ resp.status = BadBody

\* processNumber: a transport error, an undecodable body, 204, 500 and any
\* other code only touch the queue entry.
ProcessTransient(w) ==
    /\ wk[w].pc = "handle"
    /\ IsTransient(wk[w].resp)
    /\ ~Locked("queue", wk[w].number)
    /\ queue' = UpdateProcessingStatus(wk[w].number, statusProcessing, now)
    /\ wk' = [wk EXCEPT ![w].pc = "sleep"]
    /\ UNCHANGED <<users, orders, withdrawals, locks, credits, credited, dequeued,
                   rateLimitUntil, now, sub, wd, pureVars, pool, authVars, mem>>

\* processNumber, 429: publish the pause, then touch the queue entry.
ProcessRateLimited(w) ==
    /\ wk[w].pc = "handle"
    /\ wk[w].resp.code = 429
    /\ rateLimitUntil' = SetRateLimitUntil(now + parseRetryAfter(wk[w].resp.retryAfter))
    /\ wk' = [wk EXCEPT ![w].pc = "requeue"]
    /\ UNCHANGED <<storeVars, now, sub, wd, pureVars, pool, authVars, mem>>

\* processNumber, 200 PROCESSED with an accrual: ApplyOrderAccrual begins and
\* its SELECT ... FOR UPDATE locks the order row and reads it.
ApplyBegin(w) ==
    /\ wk[w].pc = "handle"
    /\ wk[w].resp.code = 200
    /\ wk[w].resp.status = statusProcessed
    /\ wk[w].resp.accrual # NULL
    /\ ~Locked("orders", wk[w].number)
    /\ IF wk[w].number \in DOMAIN orders
       THEN /\ locks' = locks \cup {Lock("orders", wk[w].number, Tx(w))}
            /\ wk' = [wk EXCEPT ![w].pc = "apply",
                                ![w].userID = orders[wk[w].number].user_id,
                                ![w].applied = orders[wk[w].number].accrual_applied]
       ELSE /\ wk' = [wk EXCEPT ![w].pc = "sleep", ![w].ret = ErrOrderNotFound]
            /\ UNCHANGED locks
    /\ UNCHANGED <<users, orders, queue, withdrawals, credits, credited, dequeued,
                   rateLimitUntil, now, sub, wd, pureVars, pool, authVars, mem>>

\* ApplyOrderAccrual, the UPDATE of the user: it waits for the lock of the
\* user's row and holds it from then on, while the DELETE may still have to
\* wait for the queue row.
ApplyUpdateUser(w) ==
    /\ wk[w].pc = "apply"
    /\ ~wk[w].applied
    /\ ~Locked("users", wk[w].userID)
    /\ locks' = locks \cup {Lock("users", wk[w].userID, Tx(w))}
    /\ wk' = [wk EXCEPT ![w].pc = "applyUser"]
    /\ UNCHANGED <<users, orders, queue, withdrawals, credits, credited, dequeued,
                   rateLimitUntil, now, sub, wd, pureVars, pool, authVars, mem>>

\* ApplyOrderAccrual: the updates of the order and of the user, the DELETE of
\* the queue entry and the commit. The UPDATE of the user waits for the row's
\* lock (unless the transaction holds it already), the DELETE for the queue
\* row's.
ApplyCommit(w) ==
    LET n == wk[w].number
        a == Val(wk[w].resp.accrual)
        u == wk[w].userID
    IN
    /\ wk[w].pc \in {"apply", "applyUser"}
    /\ wk[w].pc = "applyUser" \/ wk[w].applied \/ ~Locked("users", u)
    /\ ~Locked("queue", n)
    /\ orders' = ApplyOrderAccrualOrders(n, a, wk[w].applied)
    /\ users' = ApplyOrderAccrualUsers(u, a, wk[w].applied)
    /\ queue' = DeleteProcessingEntry(n)
    /\ dequeued' = dequeued \cup ({n} \cap DOMAIN queue)
    /\ credits' = IF wk[w].applied THEN credits ELSE [credits EXCEPT ![n] = @ + 1]
    /\ credited' = IF wk[w].applied THEN credited ELSE [credited EXCEPT ![u] = @ + a]
    /\ locks' = locks \ HeldBy(Tx(w))
    /\ wk' = [wk EXCEPT ![w].pc = "sleep",
                        ![w].ret = IF wk[w].applied THEN "false" ELSE "true"]
    /\ UNCHANGED <<withdrawals, rateLimitUntil, now, sub, wd, pureVars, pool, authVars, mem>>

\* OrderRepo.ApplyOrderAccrual called with any number and amount: the caller
\* stands where processNumber stands with a 200 PROCESSED answer that carries
\* the amount.
ApplyOrderAccrualCall(w, number, accrual) ==
    /\ wk[w].pc = "loop"
    /\ wk' = [wk EXCEPT ![w].pc = "handle",
                        ![w].number = number,
                        ![w].resp = Response(200, statusProcessed, Some(accrual), NULL)]
    /\ UNCHANGED <<storeVars, rateLimitUntil, now, sub, wd, pureVars, pool, authVars, mem>>

\* processNumber, 200 PROCESSED without an accrual, or INVALID:
\* UpdateOrderStatus(number, status, nil), then DeleteProcessingEntry.
ProcessFinal(w) ==
    /\ wk[w].pc = "handle"
    /\ wk[w].resp.code = 200
    /\ \/ wk[w].resp.status = statusProcessed /\ wk[w].resp.accrual = NULL
       \/ wk[w].resp.status = statusInvalid
    /\ ~Locked("orders", wk[w].number)
    /\ orders' = UpdateOrderStatus(wk[w].number, wk[w].resp.status, NULL)
    /\ wk' = [wk EXCEPT ![w].pc = "delete"]
    /\ UNCHANGED <<users, queue, withdrawals, locks, credits, credited, dequeued,
                   rateLimitUntil, now, sub, wd, pureVars, pool, authVars, mem>>

ProcessDelete(w) ==
    /\ wk[w].pc = "delete"
    /\ ~Locked("queue", wk[w].number)
    /\ queue' = DeleteProcessingEntry(wk[w].number)
    /\ dequeued' = dequeued \cup ({wk[w].number} \cap DOMAIN queue)
    /\ wk' = [wk EXCEPT ![w].pc = "sleep"]
    /\ UNCHANGED <<users, orders, withdrawals, locks, credits, credited,
                   rateLimitUntil, now, sub, wd, pureVars, pool, authVars, mem>>

\* processNumber, 200 with any other status:
\* UpdateOrderStatus(number, status, payload.Accrual), then UpdateProcessingStatus.
ProcessInterim(w) ==
    /\ wk[w].pc = "handle"
    /\ wk[w].resp.code = 200
    /\ wk[w].resp.status \notin {statusProcessed, statusInvalid, BadBody}
    /\ ~Locked("orders", wk[w].number)
    /\ orders' = UpdateOrderStatus(wk[w].number, wk[w].resp.status, wk[w].resp.accrual)
    /\ wk' = [wk EXCEPT ![w].pc = "requeue"]
    /\ UNCHANGED <<users, queue, withdrawals, locks, credits, credited, dequeued,
                   rateLimitUntil, now, sub, wd, pureVars, pool, authVars, mem>>

\* UpdateProcessingStatus(number, PROCESSING, now) closing the 429 and the
\* default branches.
ProcessRequeue(w) ==
    /\ wk[w].pc = "requeue"
    /\ ~Locked("queue", wk[w].number)
    /\ queue' = UpdateProcessingStatus(wk[w].number, statusProcessing, now)
    /\ wk' = [wk EXCEPT ![w].pc = "sleep"]
    /\ UNCHANGED <<users, orders, withdrawals, locks, credits, credited, dequeued,
                   rateLimitUntil, now, sub, wd, pureVars, pool, authVars, mem>>

\* A variant in which the goroutine returns on a store error.
WorkerStoreError_Exits(w) ==
    /\ wk[w].pc \in {"claim", "claimUpdate", "handle", "apply", "delete", "requeue"}
    /\ wk[w].pc = "handle" => wk[w].resp.code # 429
    /\ locks' = locks \ HeldBy(Tx(w))
    /\ wk' = [wk EXCEPT ![w].pc = "exited"]
    /\ UNCHANGED <<users, orders, queue, withdrawals, credits, credited, dequeued,
                   rateLimitUntil, now, sub, wd, pureVars, pool, authVars, mem>>

\* A store call of the worker fails (the connection is lost): the claim's or
\* ApplyOrderAccrual's transaction is rolled back, a single statement has no
\* effect, and runWorker logs the error and sleeps.
WorkerStoreError(w) ==
    /\ wk[w].pc \in {"claim", "claimUpdate", "handle", "apply", "delete", "requeue"}
    /\ wk[w].pc = "handle" => wk[w].resp.code # 429
    /\ locks' = locks \ HeldBy(Tx(w))
    /\ wk' = [wk EXCEPT ![w].pc = "sleep"]
    /\ UNCHANGED <<users, orders, queue, withdrawals, credits, credited, dequeued,
                   rateLimitUntil, now, sub, wd, pureVars, pool, authVars, mem>>

\* The root context is cancelled (main, on a shutdown signal).
Cancel ==
    /\ ~pool.cancelled
    /\ pool' = [pool EXCEPT !.cancelled = TRUE]
    /\ UNCHANGED <<storeVars, rateLimitUntil, now, wk, sub, wd, pureVars, authVars, mem>>

\* After the cancellation every call that takes the context fails: a store
\* call (a statement waiting for a row lock included) returns the context's
\* error and its transaction is rolled back; DoGet, waiting for the rate
\* limit or for the answer, returns the error and processNumber's
\* UpdateProcessingStatus fails as well. runWorker logs and goes to sleep.
WorkerCancelled(w) ==
    /\ pool.cancelled
    /\ wk[w].pc \in {"claim", "claimUpdate", "get", "handle", "apply", "delete", "requeue"}
    /\ wk[w].pc = "handle" => wk[w].resp.code # 429
    /\ locks' = locks \ HeldBy(Tx(w))
    /\ wk' = [wk EXCEPT ![w].pc = "sleep"]
    /\ UNCHANGED <<users, orders, queue, withdrawals, credits, credited, dequeued,
                   rateLimitUntil, now, sub, wd, pureVars, pool, authVars, mem>>

\* runWorker returns: ctx.Done() at the top of the loop, in
\* WaitIfRateLimited's wait, or in sleep.
WorkerExit(w) ==
    /\ pool.cancelled
    /\ w <= pool.workers
    /\ wk[w].pc \in {"loop", "sleep"}
    /\ wk' = [wk EXCEPT ![w].pc = "exited"]
    /\ UNCHANGED <<storeVars, rateLimitUntil, now, sub, wd, pureVars, pool, authVars, mem>>

\* WorkerPool.Wait returns: every goroutine Start launched has called
\* wg.Done().
Wait ==
    /\ ~pool.waited
    /\ \A w \in Workers : w <= pool.workers => wk[w].pc = "exited"
    /\ pool' = [pool EXCEPT !.waited = TRUE]
    /\ UNCHANGED <<storeVars, rateLimitUntil, now, wk, sub, wd, pureVars, authVars, mem>>

\* runWorker: sleep(interval), then the next iteration.
Sleep(w) ==
    /\ wk[w].pc = "sleep"
    /\ wk' = [wk EXCEPT ![w] = [IdleWorker EXCEPT !.retryAt = wk[w].retryAt]]
    /\ UNCHANGED <<storeVars, rateLimitUntil, now, sub, wd, pureVars, pool, authVars, mem>>

----------------------------------------------------------------------------
(* Order submission (service/order.go, handlers) *)

newOrderStatus == statusNew

Returned(s, created, err) ==
    [sub EXCEPT ![s].pc = "done", ![s].created = created, ![s].err = err]

\* SubmitOrder: trim and validate; an invalid number returns at once.
SubmitOrder(s, userID, raw) ==
    /\ sub[s].pc = "idle"
    /\ LET number == TrimSpace(raw) IN
       IF ValidateOrderNumber(number) # Nil
       THEN sub' = [sub EXCEPT ![s].pc = "done", ![s].userID = userID, ![s].raw = raw,
                               ![s].err = ErrInvalidOrderNumber]
       ELSE sub' = [sub EXCEPT ![s].pc = "get", ![s].userID = userID, ![s].raw = raw,
                               ![s].number = number]
    /\ UNCHANGED <<storeVars, rateLimitUntil, now, wk, wd, pureVars, pool, authVars, mem>>

\* What SubmitOrder returns for an order that exists.
ResolveExisting(s, existing) ==
    IF existing.user_id = sub[s].userID
    THEN Returned(s, FALSE, Nil)
    ELSE Returned(s, FALSE, ErrOrderOwnedByAnother)

\* A variant that queues the number again when the order exists.
SubmitGet_Requeue(s) ==
    /\ sub[s].pc = "get"
    /\ LET existing == GetByNumber(sub[s].number) IN
       IF existing # NULL
       THEN /\ sub' = ResolveExisting(s, Val(existing))
            /\ queue' = UpsertProcessing(sub[s].number, newOrderStatus)
       ELSE /\ sub' = [sub EXCEPT ![s].pc = "create"]
            /\ UNCHANGED queue
    /\ UNCHANGED <<users, orders, withdrawals, locks, credits, credited, dequeued,
                   rateLimitUntil, now, wk, wd, pureVars, pool, authVars, mem>>

\* SubmitOrder: existing, err := GetByNumber(number)
SubmitGet(s) ==
    /\ sub[s].pc = "get"
    /\ LET existing == GetByNumber(sub[s].number) IN
       IF existing # NULL
       THEN sub' = ResolveExisting(s, Val(existing))
       ELSE sub' = [sub EXCEPT ![s].pc = "create"]
    /\ UNCHANGED <<storeVars, rateLimitUntil, now, wk, wd, pureVars, pool, authVars, mem>>

\* SubmitOrder: CreateOrder(order); ErrOrderExists is re-queried.
SubmitCreate(s) ==
    /\ sub[s].pc = "create"
    /\ LET res == CreateOrder([number |-> sub[s].number, user_id |-> sub[s].userID,
                               status |-> newOrderStatus])
       IN IF res.err = ErrOrderExists
          THEN /\ sub' = [sub EXCEPT ![s].pc = "requery", ![s].raced = TRUE]
               /\ UNCHANGED <<orders, credits>>
          ELSE /\ orders' = res.orders
               /\ credits' = [n \in DOMAIN res.orders |->
                                IF n \in DOMAIN credits THEN credits[n] ELSE 0]
               /\ sub' = [sub EXCEPT ![s].pc = "upsert"]
    /\ UNCHANGED <<users, queue, withdrawals, locks, credited, dequeued,
                   rateLimitUntil, now, wk, wd, pureVars, pool, authVars, mem>>

\* SubmitOrder: the second GetByNumber, after ErrOrderExists.
SubmitRequery(s) ==
    /\ sub[s].pc = "requery"
    /\ LET existing == GetByNumber(sub[s].number) IN
       IF existing = NULL
       THEN sub' = Returned(s, FALSE, ErrOrderNotFound)
       ELSE sub' = ResolveExisting(s, Val(existing))
    /\ UNCHANGED <<storeVars, rateLimitUntil, now, wk, wd, pureVars, pool, authVars, mem>>

\* SubmitOrder: UpsertProcessing(number, NEW) succeeds; created.
SubmitUpsert(s) ==
    /\ sub[s].pc = "upsert"
    /\ ~Locked("queue", sub[s].number)
    /\ queue' = UpsertProcessing(sub[s].number, newOrderStatus)
    /\ sub' = Returned(s, TRUE, Nil)
    /\ UNCHANGED <<users, orders, withdrawals, locks, credits, credited, dequeued,
                   rateLimitUntil, now, wk, wd, pureVars, pool, authVars, mem>>

\* SubmitOrder: UpsertProcessing fails (the connection is lost, the context
\* is cancelled); the error is returned.
SubmitUpsertFails(s) ==
    /\ sub[s].pc = "upsert"
    /\ sub' = Returned(s, FALSE, ErrInfra)
    /\ UNCHANGED <<storeVars, rateLimitUntil, now, wk, wd, pureVars, pool, authVars, mem>>

\* A variant without the ErrOrderOwnedByAnother case.
HandleCreateOrderStatus_NoConflict(created, err) ==
    IF err # Nil
    THEN CASE err = ErrInvalidOrderNumber -> 422
           [] OTHER -> 500
    ELSE IF created THEN 202 ELSE 200

\* handleCreateOrder: the status written for what SubmitOrder returned.
HandleCreateOrderStatus(created, err) ==
    IF err # Nil
    THEN CASE err = ErrInvalidOrderNumber -> 422
           [] err = ErrOrderOwnedByAnother -> 409
           [] OTHER -> 500
    ELSE IF created THEN 202 ELSE 200

----------------------------------------------------------------------------
(* Withdrawal (service/withdraw.go, repo/withdraw_pg.go) *)

WdTx(r) == <<"withdraw", r>>

\* handleWithdraw: the status written for what Withdraw returned.
HandleWithdrawStatus(err) ==
    CASE err = Nil -> 200
      [] err = ErrInvalidOrderNumber -> 422
      [] err = ErrInvalidWithdrawAmount -> 400
      [] err = ErrInsufficientFunds -> 402
      [] OTHER -> 500

\* A variant that checks the amount before the order number.
WithdrawCall_AmountFirst(r, userID, order, amount) ==
    /\ wd[r].pc = "idle"
    /\ LET trimmed == TrimSpace(order)
           req == [wd[r] EXCEPT !.userID = userID, !.order = trimmed, !.amount = amount]
       IN IF amount <= 0
          THEN wd' = [wd EXCEPT ![r] = [req EXCEPT !.pc = "done", !.err = ErrInvalidWithdrawAmount]]
          ELSE IF ValidateOrderNumber(trimmed) # Nil
          THEN wd' = [wd EXCEPT ![r] = [req EXCEPT !.pc = "done", !.err = ErrInvalidOrderNumber]]
          ELSE wd' = [wd EXCEPT ![r] = [req EXCEPT !.pc = "begin"]]
    /\ UNCHANGED <<storeVars, rateLimitUntil, now, wk, sub, pureVars, pool, authVars, mem>>

\* WithdrawManager.Withdraw: trim, validate the order number, then the amount;
\* then PGWithdrawRepository.Withdraw begins.
WithdrawCall(r, userID, order, amount) ==
    /\ wd[r].pc = "idle"
    /\ LET trimmed == TrimSpace(order)
           req == [wd[r] EXCEPT !.userID = userID, !.order = trimmed, !.amount = amount]
       IN IF ValidateOrderNumber(trimmed) # Nil
          THEN wd' = [wd EXCEPT ![r] = [req EXCEPT !.pc = "done", !.err = ErrInvalidOrderNumber]]
          ELSE IF amount <= 0
          THEN wd' = [wd EXCEPT ![r] = [req EXCEPT !.pc = "done", !.err = ErrInvalidWithdrawAmount]]
          ELSE wd' = [wd EXCEPT ![r] = [req EXCEPT !.pc = "begin"]]
    /\ UNCHANGED <<storeVars, rateLimitUntil, now, wk, sub, pureVars, pool, authVars, mem>>

\* A variant whose SELECT has no FOR UPDATE: the balance is read, the row is
\* not locked.
WithdrawSelect_NoLock(r) ==
    /\ wd[r].pc = "begin"
    /\ wd' = [wd EXCEPT ![r].pc = "locked", ![r].balance = users[wd[r].userID].balance]
    /\ UNCHANGED <<storeVars, rateLimitUntil, now, wk, sub, pureVars, pool, authVars, mem>>

\* PGWithdrawRepository.Withdraw: SELECT balance ... FOR UPDATE locks the
\* user's row and reads the balance.
WithdrawSelect(r) ==
    /\ wd[r].pc = "begin"
    /\ ~Locked("users", wd[r].userID)
    /\ locks' = locks \cup {Lock("users", wd[r].userID, WdTx(r))}
    /\ wd' = [wd EXCEPT ![r].pc = "locked", ![r].balance = users[wd[r].userID].balance]
    /\ UNCHANGED <<users, orders, queue, withdrawals, credits, credited, dequeued,
                   rateLimitUntil, now, wk, sub, pureVars, pool, authVars, mem>>

\* A variant without the balance check.
WithdrawCommit_NoCheck(r) ==
    LET u == wd[r].userID
        a == wd[r].amount
    IN
    /\ wd[r].pc = "locked"
    /\ users' = [users EXCEPT ![u].balance = @ - a, ![u].withdrawn = @ + a]
    /\ withdrawals' = Append(withdrawals,
            [user_id |-> u, order |-> wd[r].order, sum |-> a])
    /\ wd' = [wd EXCEPT ![r].pc = "done", ![r].err = Nil]
    /\ locks' = locks \ HeldBy(WdTx(r))
    /\ UNCHANGED <<orders, queue, credits, credited, dequeued,
                   rateLimitUntil, now, wk, sub, pureVars, pool, authVars, mem>>

\* A variant that checks the balance after the UPDATE and commits it all the
\* same when it returns ErrInsufficientFunds.
WithdrawCommit_DebitThenCheck(r) ==
    LET u == wd[r].userID
        a == wd[r].amount
    IN
    /\ wd[r].pc = "locked"
    /\ users' = [users EXCEPT ![u].balance = @ - a, ![u].withdrawn = @ + a]
    /\ IF wd[r].balance < a
       THEN /\ wd' = [wd EXCEPT ![r].pc = "done", ![r].err = ErrInsufficientFunds]
            /\ UNCHANGED withdrawals
       ELSE /\ withdrawals' = Append(withdrawals,
                    [user_id |-> u, order |-> wd[r].order, sum |-> a])
            /\ wd' = [wd EXCEPT ![r].pc = "done", ![r].err = Nil]
    /\ locks' = locks \ HeldBy(WdTx(r))
    /\ UNCHANGED <<orders, queue, credits, credited, dequeued,
                   rateLimitUntil, now, wk, sub, pureVars, pool, authVars, mem>>

\* PGWithdrawRepository.Withdraw: balance < amount rolls back with
\* ErrInsufficientFunds; otherwise the UPDATE, the INSERT and the commit.
WithdrawCommit(r) ==
    LET u == wd[r].userID
        a == wd[r].amount
    IN
    /\ wd[r].pc = "locked"
    /\ IF wd[r].balance < a
       THEN /\ wd' = [wd EXCEPT ![r].pc = "done", ![r].err = ErrInsufficientFunds]
            /\ UNCHANGED <<users, withdrawals>>
       ELSE /\ users' = [users EXCEPT ![u].balance = @ - a, ![u].withdrawn = @ + a]
            /\ withdrawals' = Append(withdrawals,
                    [user_id |-> u, order |-> wd[r].order, sum |-> a])
            /\ wd' = [wd EXCEPT ![r].pc = "done", ![r].err = Nil]
    /\ locks' = locks \ HeldBy(WdTx(r))
    /\ UNCHANGED <<orders, queue, credits, credited, dequeued,
                   rateLimitUntil, now, wk, sub, pureVars, pool, authVars, mem>>

\* A variant in which the UPDATE is not rolled back when the INSERT fails.
WithdrawFails_NoRollback(r) ==
    /\ wd[r].pc = "locked"
    /\ wd[r].balance >= wd[r].amount
    /\ users' = [users EXCEPT ![wd[r].userID].balance = @ - wd[r].amount,
                              ![wd[r].userID].withdrawn = @ + wd[r].amount]
    /\ wd' = [wd EXCEPT ![r].pc = "done", ![r].err = ErrInfra]
    /\ locks' = locks \ HeldBy(WdTx(r))
    /\ UNCHANGED <<orders, queue, withdrawals, credits, credited, dequeued,
                   rateLimitUntil, now, wk, sub, pureVars, pool, authVars, mem>>

\* PGWithdrawRepository.Withdraw: a statement or the commit fails; the
\* transaction is rolled back.
WithdrawFails(r) ==
    /\ wd[r].pc = "locked"
    /\ wd[r].balance >= wd[r].amount
    /\ wd' = [wd EXCEPT ![r].pc = "done", ![r].err = ErrInfra]
    /\ locks' = locks \ HeldBy(WdTx(r))
    /\ UNCHANGED <<users, orders, queue, withdrawals, credits, credited, dequeued,
                   rateLimitUntil, now, wk, sub, pureVars, pool, authVars, mem>>

----------------------------------------------------------------------------
(* Tokens presented to ValidateToken (service/auth.go) *)

\* tokenForUser(id), as Register and Login return it
TokenForUser(id) ==
    /\ tok.pc = "idle"
    /\ tok' = [IdleToken EXCEPT !.pc = "presented", !.kind = "issued", !.id = id,
                                !.idPart = FormatInt(id),
                                !.sigPart = signatureForID(AuthManager, id),
                                !.token = tokenForUser(AuthManager, id)]
    /\ UNCHANGED <<storeVars, rateLimitUntil, now, wk, sub, wd, pureVars, pool,
                   reqs, logins, reg, mem>>

\* The same token as a client sends it back with a line break after it.
TokenWithLineBreak(id) ==
    /\ tok.pc = "idle"
    /\ tok' = [IdleToken EXCEPT !.pc = "presented", !.kind = "wrapped", !.id = id,
                                !.idPart = FormatInt(id),
                                !.sigPart = signatureForID(AuthManager, id),
                                !.token = tokenForUser(AuthManager, id) \o <<13, 10>>]
    /\ UNCHANGED <<storeVars, rateLimitUntil, now, wk, sub, wd, pureVars, pool,
                   reqs, logins, reg, mem>>

\* A client builds a token of its own: base64 of "<idPart>:<sigPart>".
ForgeToken(idPart, sigPart) ==
    /\ tok.pc = "idle"
    /\ tok' = [IdleToken EXCEPT !.pc = "presented", !.kind = "forged",
                                !.idPart = idPart, !.sigPart = sigPart,
                                !.token = EncodeToString(idPart \o <<58>> \o sigPart)]
    /\ UNCHANGED <<storeVars, rateLimitUntil, now, wk, sub, wd, pureVars, pool,
                   reqs, logins, reg, mem>>

\* A client sends a string that is not base64 of "<id>:<signature>".
RawToken(raw) ==
    /\ tok.pc = "idle"
    /\ tok' = [IdleToken EXCEPT !.pc = "presented", !.kind = "raw", !.token = raw]
    /\ UNCHANGED <<storeVars, rateLimitUntil, now, wk, sub, wd, pureVars, pool,
                   reqs, logins, reg, mem>>

\* userID, err := ValidateToken(ctx, token)
ValidateTokenCall ==
    /\ tok.pc = "presented"
    /\ tok' = [tok EXCEPT !.pc = "validated", !.out = ValidateToken(AuthManager, tok.token)]
    /\ UNCHANGED <<storeVars, rateLimitUntil, now, wk, sub, wd, pureVars, pool,
                   reqs, logins, reg, mem>>

----------------------------------------------------------------------------
(* The user routes behind authFromCookie (handlers) *)

PostOrders == "POST /api/user/orders"
GetOrders == "GET /api/user/orders"
GetBalanceRoute == "GET /api/user/balance"
PostWithdraw == "POST /api/user/balance/withdraw"
GetWithdrawals == "GET /api/user/withdrawals"
UserRoutes == {PostOrders, GetOrders, GetBalanceRoute, PostWithdraw, GetWithdrawals}

\* A variant that calls the next handler whatever ValidateToken returned.
authFromCookie_IgnoresError(q, route, cookie) ==
    /\ reqs[q].pc = "idle"
    /\ IF cookie = NULL
       THEN reqs' = [reqs EXCEPT ![q] = [@ EXCEPT !.pc = "done", !.route = route,
                                                   !.cookie = cookie, !.status = 401]]
       ELSE reqs' = [reqs EXCEPT ![q] = [@ EXCEPT !.pc = "next", !.route = route,
                        !.cookie = cookie,
                        !.userID = ValidateToken(AuthManager, Val(cookie)).id]]
    /\ UNCHANGED <<storeVars, rateLimitUntil, now, wk, sub, wd, pureVars, pool,
                   tok, logins, reg, mem>>

\* authFromCookie: no cookie named token, or a token that ValidateToken
\* refuses, is answered 401; otherwise the user id is put into the context
\* and the route's handler is called.
authFromCookie(q, route, cookie) ==
    /\ reqs[q].pc = "idle"
    /\ IF cookie = NULL
       THEN reqs' = [reqs EXCEPT ![q] = [@ EXCEPT !.pc = "done", !.route = route,
                                                   !.cookie = cookie, !.status = 401]]
       ELSE LET out == ValidateToken(AuthManager, Val(cookie)) IN
            IF out.err # Nil
            THEN reqs' = [reqs EXCEPT ![q] = [@ EXCEPT !.pc = "done", !.route = route,
                                                        !.cookie = cookie, !.status = 401]]
            ELSE reqs' = [reqs EXCEPT ![q] = [@ EXCEPT !.pc = "next", !.route = route,
                                                        !.cookie = cookie, !.userID = out.id]]
    /\ UNCHANGED <<storeVars, rateLimitUntil, now, wk, sub, wd, pureVars, pool,
                   tok, logins, reg, mem>>

\* handleCreateOrder: SubmitOrder(ctx, userID, number) with the user id of
\* the context.
handleCreateOrder(q, raw) ==
    /\ reqs[q].pc = "next"
    /\ reqs[q].route = PostOrders
    /\ SubmitOrder(q, reqs[q].userID, raw)

\* handleWithdraw: Withdraw(ctx, userID, order, sum) with the user id of the
\* context.
handleWithdraw(q, order, amount) ==
    /\ reqs[q].pc = "next"
    /\ reqs[q].route = PostWithdraw
    /\ WithdrawCall(q, reqs[q].userID, order, amount)

\* PGOrderRepository.ListUserOrders: WHERE user_id = $1
ListUserOrders(userID) ==
    {[number |-> n, status |-> orders[n].status, accrual |-> orders[n].accrual] :
        n \in {m \in DOMAIN orders : orders[m].user_id = userID}}

\* PGUserRepository.GetBalance: WHERE id = $1 (no row: ErrUserNotFound)
GetBalance(userID) ==
    IF userID \in DOMAIN users
    THEN {[current |-> users[userID].balance, withdrawn |-> users[userID].withdrawn]}
    ELSE {}

\* PGWithdrawRepository.ListUserWithdrawals: WHERE user_id = $1
ListUserWithdrawals(userID) ==
    {[order |-> withdrawals[i].order, sum |-> withdrawals[i].sum] :
        i \in {j \in 1..Len(withdrawals) : withdrawals[j].user_id = userID}}

\* handleListOrders, handleBalance, handleWithdrawals: the service is read
\* with the user id of the context; an empty list is 204, a missing user 500.
handleRead(q) ==
    /\ reqs[q].pc = "next"
    /\ reqs[q].route \in {GetOrders, GetBalanceRoute, GetWithdrawals}
    /\ LET userID == reqs[q].userID
           body == CASE reqs[q].route = GetOrders -> ListUserOrders(userID)
                     [] reqs[q].route = GetBalanceRoute -> GetBalance(userID)
                     [] OTHER -> ListUserWithdrawals(userID)
           status == IF body # {} THEN 200
                     ELSE IF reqs[q].route = GetBalanceRoute THEN 500 ELSE 204
       IN reqs' = [reqs EXCEPT ![q] = [@ EXCEPT !.pc = "done", !.called = Some(userID),
                                                 !.body = body, !.status = status]]
    /\ UNCHANGED <<storeVars, rateLimitUntil, now, wk, sub, wd, pureVars, pool,
                   tok, logins, reg, mem>>

----------------------------------------------------------------------------
(* Registration (service/auth.go, repo/user_pg.go, handlers) *)

\* AuthManager.Register (and decodeAuthRequest before it): an empty or
\* whitespace-only login or password is ErrInvalidCredentials; otherwise the
\* password is hashed and CreateUser is called.
Register(g, login, password) ==
    /\ reg[g].pc = "idle"
    /\ LET call == [reg[g] EXCEPT !.login = login, !.password = password,
                                  !.began = logins.seq]
       IN IF TrimSpace(login) = <<>> \/ TrimSpace(password) = <<>>
          THEN reg' = [reg EXCEPT ![g] = [call EXCEPT !.pc = "done",
                                                      !.err = ErrInvalidCredentials]]
          ELSE reg' = [reg EXCEPT ![g] = [call EXCEPT !.pc = "create"]]
    /\ UNCHANGED <<storeVars, rateLimitUntil, now, wk, sub, wd, pureVars, pool,
                   tok, reqs, logins, mem>>

\* The logins of the users table
LoginsTaken == {logins.login[u] : u \in DOMAIN logins.login}

\* A variant whose login column is not UNIQUE.
CreateUser_NotUnique(g) ==
    LET id == logins.seq + 1 IN
    /\ reg[g].pc = "create"
    /\ logins' = [seq |-> id,
                  login |-> [u \in DOMAIN logins.login \cup {id} |->
                                IF u = id THEN reg[g].login ELSE logins.login[u]]]
    /\ users' = [u \in DOMAIN users \cup {id} |->
                    IF u = id THEN [balance |-> 0, withdrawn |-> 0] ELSE users[u]]
    /\ credited' = [u \in DOMAIN credited \cup {id} |->
                    IF u = id THEN 0 ELSE credited[u]]
    /\ reg' = [reg EXCEPT ![g].pc = "done", ![g].err = Nil, ![g].id = id,
                          ![g].token = tokenForUser(AuthManager, id)]
    /\ UNCHANGED <<orders, queue, withdrawals, locks, credits, dequeued,
                   rateLimitUntil, now, wk, sub, wd, pureVars, pool, tok, reqs, mem>>

\* PGUserRepository.CreateUser, one INSERT ... RETURNING id: the id is drawn
\* from the SERIAL sequence, then a login that exists is a unique violation
\* (23505, ErrUserExists, which Register returns as ErrLoginTaken);
\* otherwise the row is inserted with balance 0 and withdrawn 0 and Register
\* returns tokenForUser(user.ID).
CreateUser(g) ==
    LET id == logins.seq + 1 IN
    /\ reg[g].pc = "create"
    /\ IF reg[g].login \in LoginsTaken
       THEN /\ logins' = [logins EXCEPT !.seq = id]
            /\ reg' = [reg EXCEPT ![g].pc = "done", ![g].err = ErrLoginTaken]
            /\ UNCHANGED <<users, credited>>
       ELSE /\ logins' = [seq |-> id,
                          login |-> [u \in DOMAIN logins.login \cup {id} |->
                                        IF u = id THEN reg[g].login ELSE logins.login[u]]]
            /\ users' = [u \in DOMAIN users \cup {id} |->
                            IF u = id THEN [balance |-> 0, withdrawn |-> 0] ELSE users[u]]
            /\ credited' = [u \in DOMAIN credited \cup {id} |->
                            IF u = id THEN 0 ELSE credited[u]]
            /\ reg' = [reg EXCEPT ![g].pc = "done", ![g].err = Nil, ![g].id = id,
                                  ![g].token = tokenForUser(AuthManager, id)]
    /\ UNCHANGED <<orders, queue, withdrawals, locks, credits, dequeued,
                   rateLimitUntil, now, wk, sub, wd, pureVars, pool, tok, reqs, mem>>

\* CreateUser fails for another reason (the connection is lost): no row.
CreateUserFails(g) ==
    /\ reg[g].pc = "create"
    /\ reg' = [reg EXCEPT ![g].pc = "done", ![g].err = ErrInfra]
    /\ UNCHANGED <<storeVars, rateLimitUntil, now, wk, sub, wd, pureVars, pool,
                   tok, reqs, logins, mem>>

\* handleRegister: the status written for what Register returned.
HandleRegisterStatus(err) ==
    CASE err = Nil -> 200
      [] err = ErrLoginTaken -> 409
      [] err = ErrInvalidCredentials -> 400
      [] OTHER -> 500

----------------------------------------------------------------------------
(* Specifications *)

\* "18" and "26", both Luhn-valid
Number18 == <<49, 56>>
Number26 == <<50, 54>>

\* One step of worker w, but for the answer of the scoring service.
WorkerStep(w) ==
    \/ WaitIfRateLimited(w)
    \/ ClaimSelect(w)
    \/ ClaimCommit(w)
    \/ ProcessTransient(w)
    \/ ApplyBegin(w)
    \/ ApplyCommit(w)
    \/ ProcessFinal(w)
    \/ ProcessDelete(w)
    \/ ProcessInterim(w)
    \/ ProcessRequeue(w)
    \/ Sleep(w)

SubmitStep(s) ==
    \/ SubmitGet(s)
    \/ SubmitCreate(s)
    \/ SubmitRequery(s)
    \/ SubmitUpsert(s)

\* The accrual pipeline: user 1 submits order 18 and the pool of workers
\* polls the scoring service for it.
NextAccrual ==
    \/ SubmitOrder(1, 1, Number18)
    \/ SubmitGet(1)
    \/ SubmitCreate(1)
    \/ SubmitUpsert(1)
    \/ \E w \in Workers : WorkerStep(w)
    \/ \E w \in Workers : \E resp \in OkResponses \cup TransientResponses : DoGet(w, resp)

SpecAccrual == Init /\ [][NextAccrual]_vars

\* Withdrawals against accruals: the users submit orders 18 and 26, one worker
\* applies the accruals the scoring service reports, and withdrawals of 50 and
\* 60 run concurrently with it and with each other.
WithdrawAmounts == {50, 60}

WithdrawStep(r) ==
    \/ WithdrawSelect(r)
    \/ WithdrawCommit(r)
    \/ WithdrawFails(r)

NextWithdraw ==
    \/ \E u \in Users : SubmitOrder(1, u, Number18)
    \/ \E u \in Users : SubmitOrder(2, u, Number26)
    \/ \E s \in {1, 2} : SubmitGet(s) \/ SubmitCreate(s) \/ SubmitUpsert(s)
    \/ WaitIfRateLimited(1)
    \/ ClaimSelect(1)
    \/ ClaimCommit(1)
    \/ \E a \in AccrualValues : DoGet(1, Response(200, "PROCESSED", Some(a), NULL))
    \/ DoGet(1, Response(204, "", NULL, NULL))
    \/ ProcessTransient(1)
    \/ ApplyBegin(1)
    \/ ApplyCommit(1)
    \/ Sleep(1)
    \/ \E r \in WdIds : \E u \in Users : \E a \in WithdrawAmounts :
            WithdrawCall(r, u, Number26, a)
    \/ \E r \in WdIds : WithdrawStep(r)

SpecWithdraw == Init /\ [][NextWithdraw]_vars

\* Withdrawal requests of every kind: user 1 submits "18" and a worker
\* credits its accrual of 100; either user asks to withdraw -50, 0, 50 or 150
\* against "26", " 26 ", "12" (not Luhn-valid) or the empty string, two
\* requests at a time.
WithdrawOrders == {Number26, <<32, 50, 54, 32>>, <<49, 50>>, <<>>}
WithdrawSums == {-50, 0, 50, 150}

NextWithdrawRequest ==
    \/ SubmitOrder(1, 1, Number18)
    \/ SubmitGet(1)
    \/ SubmitCreate(1)
    \/ SubmitUpsert(1)
    \/ WaitIfRateLimited(1)
    \/ ClaimSelect(1)
    \/ ClaimCommit(1)
    \/ \E a \in AccrualValues : DoGet(1, Response(200, "PROCESSED", Some(a), NULL))
    \/ ApplyBegin(1)
    \/ ApplyCommit(1)
    \/ Sleep(1)
    \/ \E r \in WdIds : \E u \in Users : \E o \in WithdrawOrders : \E a \in WithdrawSums :
            WithdrawCall(r, u, o, a)
    \/ \E r \in WdIds : WithdrawStep(r)

SpecWithdrawRequest == Init /\ [][NextWithdrawRequest]_vars

\* Submissions: both users submit "18", " 18 ", "26" and "12" (not Luhn-valid),
\* concurrently and one after the other, while one worker processes what is
\* queued; UpsertProcessing may fail.
SubmitInputs == {Number18, <<32, 49, 56, 32>>, Number26, <<49, 50>>}

NextSubmit ==
    \/ \E s \in SubIds : \E u \in Users : \E raw \in SubmitInputs : SubmitOrder(s, u, raw)
    \/ \E s \in SubIds : SubmitStep(s)
    \/ \E s \in SubIds : SubmitUpsertFails(s)
    \/ WaitIfRateLimited(1)
    \/ ClaimSelect(1)
    \/ ClaimCommit(1)
    \/ \E a \in AccrualValues : DoGet(1, Response(200, "PROCESSED", Some(a), NULL))
    \/ DoGet(1, Response(200, "REGISTERED", NULL, NULL))
    \/ ApplyBegin(1)
    \/ ApplyCommit(1)
    \/ ProcessInterim(1)
    \/ ProcessRequeue(1)
    \/ Sleep(1)

SpecSubmit == Init /\ [][NextSubmit]_vars

\* Rate limiting: users 1 and 2 submit "18" and "26" and workers 1 and 2 process the queue
\* while the clock advances; the scoring service answers 429, with
\* Retry-After: 1 or without the header, or 200 PROCESSED with an accrual.
NextRateLimit ==
    \/ SubmitOrder(1, 1, Number18)
    \/ SubmitOrder(2, 2, Number26)
    \/ \E s \in {1, 2} : SubmitGet(s)
    \/ \E s \in {1, 2} : SubmitCreate(s)
    \/ \E s \in {1, 2} : SubmitUpsert(s)
    \/ Tick
    \/ \E w \in {1, 2} : WaitIfRateLimited(w)
    \/ \E w \in {1, 2} : ClaimSelect(w)
    \/ \E w \in {1, 2} : ClaimCommit(w)
    \/ \E w \in {1, 2} : ProcessRateLimited(w)
    \/ \E w \in {1, 2} : ProcessRequeue(w)
    \/ \E w \in {1, 2} : ApplyBegin(w)
    \/ \E w \in {1, 2} : ApplyCommit(w)
    \/ \E w \in {1, 2} : Sleep(w)
    \/ \E w \in {1, 2} : \E resp \in RateLimitResponses : DoGet(w, resp)
    \/ \E w \in {1, 2} : \E a \in AccrualValues :
            DoGet(w, Response(200, "PROCESSED", Some(a), NULL))

SpecRateLimit == Init /\ [][NextRateLimit]_vars

\* Processing with failures: user 1 submits "18"; workers 1 and 2 process
\* the queue while the clock advances; the scoring service gives any answer
\* but 429 and any store call of a worker may fail.
NextProcess ==
    \/ SubmitOrder(1, 1, Number18)
    \/ SubmitGet(1)
    \/ SubmitCreate(1)
    \/ SubmitUpsert(1)
    \/ Tick
    \/ \E w \in {1, 2} : WorkerStep(w)
    \/ \E w \in {1, 2} : WorkerStoreError(w)
    \/ \E w \in {1, 2} : \E resp \in OkResponses \cup TransientResponses : DoGet(w, resp)

SpecProcess == Init /\ [][NextProcess]_vars

\* Final answers: user 1 submits "18" and "26"; the scoring service answers
\* 200 PROCESSED with accrual 100 for "18" and 200 INVALID for "26", every
\* time it is asked; the workers run, each scheduled again and again.
ScoringAnswer(number) ==
    IF number = Number18
    THEN Response(200, "PROCESSED", Some(100), NULL)
    ELSE Response(200, "INVALID", NULL, NULL)

FinalWorker(w) ==
    \/ WaitIfRateLimited(w)
    \/ ClaimSelect(w)
    \/ ClaimCommit(w)
    \/ DoGet(w, ScoringAnswer(wk[w].number))
    \/ ApplyBegin(w)
    \/ ApplyCommit(w)
    \/ ProcessFinal(w)
    \/ ProcessDelete(w)
    \/ Sleep(w)

NextFinal ==
    \/ SubmitOrder(1, 1, Number18)
    \/ SubmitOrder(2, 1, Number26)
    \/ \E s \in {1, 2} : SubmitGet(s)
    \/ \E s \in {1, 2} : SubmitCreate(s)
    \/ \E s \in {1, 2} : SubmitUpsert(s)
    \/ \E w \in Workers : FinalWorker(w)

\* A worker is a goroutine that keeps running, and a store call that waits
\* for a row lock proceeds when the lock is released.
SpecFinal ==
    /\ Init
    /\ [][NextFinal]_vars
    /\ \A w \in Workers : WF_vars(FinalWorker(w))

\* Shutdown: a pool started with -1, 0, 1 or AccrualWorkers workers; user 1
\* submits "18"; the scoring service answers 429 without Retry-After, 204 or
\* 200 PROCESSED; the context is cancelled at any moment and Wait is called.
PoolSizes == {-1, 0, 1, AccrualWorkers}

InitShutdown ==
    /\ InitStore
    /\ InitMemory
    /\ InitProcesses
    /\ \E workers \in PoolSizes : InitPool(workers)
    /\ InitAuth
    /\ luhnIn = <<>>
    /\ luhnOut = NULL

ShutdownAnswers ==
    {Response(429, "", NULL, NULL), Response(204, "", NULL, NULL)}
        \cup {Response(200, "PROCESSED", Some(a), NULL) : a \in AccrualValues}

ShutdownWorker(w) ==
    \/ WaitIfRateLimited(w)
    \/ ClaimSelect(w)
    \/ ClaimCommit(w)
    \/ \E resp \in ShutdownAnswers : DoGet(w, resp)
    \/ ProcessTransient(w)
    \/ ProcessRateLimited(w)
    \/ ProcessRequeue(w)
    \/ ApplyBegin(w)
    \/ ApplyCommit(w)
    \/ Sleep(w)
    \/ WorkerCancelled(w)
    \/ WorkerExit(w)

NextShutdown ==
    \/ SubmitOrder(1, 1, Number18)
    \/ SubmitGet(1)
    \/ SubmitCreate(1)
    \/ SubmitUpsert(1)
    \/ Cancel
    \/ Wait
    \/ \E w \in Workers : ShutdownWorker(w)

\* The goroutines keep running, and the caller of Wait is resumed when the
\* WaitGroup reaches zero.
SpecShutdown ==
    /\ InitShutdown
    /\ [][NextShutdown]_vars
    /\ \A w \in Workers : WF_vars(ShutdownWorker(w))
    /\ WF_vars(Wait)

\* The queue: "18" is submitted twice, by either user, at any moment, while
\* workers 1 and 2 process the queue and the scoring service answers 200
\* PROCESSED with an accrual, 200 INVALID, 200 REGISTERED or 204.
QueueAnswers ==
    {Response(200, "INVALID", NULL, NULL), Response(200, "REGISTERED", NULL, NULL),
     Response(204, "", NULL, NULL)}
        \cup {Response(200, "PROCESSED", Some(a), NULL) : a \in AccrualValues}

NextQueue ==
    \/ \E s \in {1, 2} : \E u \in Users : SubmitOrder(s, u, Number18)
    \/ \E s \in {1, 2} : SubmitStep(s)
    \/ \E w \in {1, 2} : WorkerStep(w)
    \/ \E w \in {1, 2} : \E resp \in QueueAnswers : DoGet(w, resp)

SpecQueue == Init /\ [][NextQueue]_vars

\* Rotation: user 1 submits "18" and "26"; workers 1 and 2 process the queue;
\* the scoring service cannot be reached (a transport error) or answers 200
\* INVALID. Only the order of the instants matters to ORDER BY last_check, so
\* the clock of this specification keeps them as ranks: when it advances, the
\* instants in last_check are renumbered 1, 2, ... in their order and now is
\* the next one.
Instants ==
    {Val(queue[n].last_check) : n \in {m \in DOMAIN queue : queue[m].last_check # NULL}}

Rank(t) == Cardinality({x \in Instants : x <= t})

TickRotation ==
    /\ now \in Instants
    /\ queue' = [n \in DOMAIN queue |->
                    IF queue[n].last_check = NULL THEN queue[n]
                    ELSE [queue[n] EXCEPT !.last_check = Some(Rank(Val(@)))]]
    /\ now' = Cardinality(Instants) + 1
    /\ UNCHANGED <<users, orders, withdrawals, locks, credits, credited, dequeued,
                   rateLimitUntil, wk, sub, wd, pureVars, pool, authVars, mem>>

RotationAnswers ==
    {Response(0, "", NULL, NULL), Response(200, "INVALID", NULL, NULL)}

RotationWorker(w) ==
    \/ WaitIfRateLimited(w)
    \/ ClaimSelect(w)
    \/ ClaimCommit(w)
    \/ \E resp \in RotationAnswers : DoGet(w, resp)
    \/ ProcessTransient(w)
    \/ ProcessFinal(w)
    \/ ProcessDelete(w)
    \/ Sleep(w)

NextRotation ==
    \/ SubmitOrder(1, 1, Number18)
    \/ SubmitOrder(2, 1, Number26)
    \/ \E s \in {1, 2} : SubmitGet(s)
    \/ \E s \in {1, 2} : SubmitCreate(s)
    \/ \E s \in {1, 2} : SubmitUpsert(s)
    \/ TickRotation
    \/ \E w \in {1, 2} : RotationWorker(w)

\* The workers are goroutines that keep running, and time passes.
SpecRotation ==
    /\ Init
    /\ [][NextRotation]_vars
    /\ \A w \in {1, 2} : WF_vars(RotationWorker(w))
    /\ WF_vars(TickRotation)

\* Tokens: a token is issued for an id, or built by a client from an id part
\* ("1", "2", "-1", "+1", "01", "", "x", "1 ", "0x1") and a signature part
\* (the signature of 1 or 2, the signature of 1 under the secret "other",
\* nothing, the signature of 1 cut short, extended, or after a second
\* colon), or is some other string; then it is validated.
TokenIds == {-12, -1, 0, 1, 2, 7, 10, 345}

ForgedIdParts ==
    {FormatInt(i) : i \in {1, 2, -1}}
        \cup {<<43, 49>>, <<48, 49>>, <<>>, <<120>>, <<49, 32>>, <<48, 120, 49>>}

ForgedSigParts ==
    LET sig1 == signatureForID(AuthManager, 1) IN
    {sig1, signatureForID(AuthManager, 2),
     signatureForID([secret |-> <<111, 116, 104, 101, 114>>], 1),
     <<>>, SubSeq(sig1, 1, Len(sig1) - 1), sig1 \o <<48>>, <<58>> \o sig1}

RawTokens ==
    LET token1 == tokenForUser(AuthManager, 1) IN
    {<<>>, <<33, 33, 33, 33>>,
     EncodeToString(FormatInt(1) \o signatureForID(AuthManager, 1)),
     SubSeq(token1, 1, Len(token1) - 1), token1 \o <<61>>, <<32>> \o token1}

NextToken ==
    \/ \E id \in TokenIds : TokenForUser(id)
    \/ \E id \in TokenIds : TokenWithLineBreak(id)
    \/ \E idPart \in ForgedIdParts : \E sigPart \in ForgedSigParts : ForgeToken(idPart, sigPart)
    \/ \E raw \in RawTokens : RawToken(raw)
    \/ ValidateTokenCall

SpecToken == Init /\ [][NextToken]_vars

\* Authentication: two requests to any of the user routes, without a
\* cookie or with the token of user 1, of user 2, of user 1 under the secret
\* "other", with the id 2 and the signature of 1, with an empty value or
\* with "!!!!"; orders "18" and "12" (not Luhn-valid) are submitted and 50 is
\* asked against "26".
Cookies ==
    {NULL}
        \cup {Some(tokenForUser(AuthManager, u)) : u \in Users}
        \cup {Some(tokenForUser([secret |-> <<111, 116, 104, 101, 114>>], 1)),
              Some(EncodeToString(FormatInt(2) \o <<58>> \o signatureForID(AuthManager, 1))),
              Some(<<>>), Some(<<33, 33, 33, 33>>)}

NextAuth ==
    \/ \E q \in ReqIds : \E route \in UserRoutes : \E cookie \in Cookies :
            authFromCookie(q, route, cookie)
    \/ \E q \in ReqIds : \E raw \in {Number18, <<49, 50>>} : handleCreateOrder(q, raw)
    \/ \E q \in ReqIds : SubmitStep(q)
    \/ \E q \in ReqIds : handleWithdraw(q, Number26, 50)
    \/ \E q \in ReqIds : WithdrawSelect(q)
    \/ \E q \in ReqIds : WithdrawCommit(q)
    \/ \E q \in ReqIds : handleRead(q)

SpecAuth == Init /\ [][NextAuth]_vars

\* Registration: "a" (the login of user 1), "c", " c", the empty string, a
\* space and a tab are registered with the password "p", an empty one or a
\* space, MaxRegisters calls at a time.
RegisterLogins == {<<97>>, <<99>>, <<32, 99>>, <<>>, <<32>>, <<9>>}
RegisterPasswords == {<<112>>, <<>>, <<32>>}

NextRegister ==
    \/ \E g \in RegIds : \E login \in RegisterLogins : \E password \in RegisterPasswords :
            Register(g, login, password)
    \/ \E g \in RegIds : CreateUser(g)
    \/ \E g \in RegIds : CreateUserFails(g)

SpecRegister == Init /\ [][NextRegister]_vars

\* ApplyOrderAccrual on its own: user 1 may submit order 18, order 26 is never
\* submitted, and each caller applies either amount to either number, before
\* or after the submission and as often as it likes.
ApplyNumbers == {Number18, Number26}
ApplyAmounts == {100, 50}

NextApply ==
    \/ SubmitOrder(1, 1, Number18)
    \/ SubmitGet(1)
    \/ SubmitCreate(1)
    \/ SubmitUpsert(1)
    \/ \E w \in Workers : \E n \in ApplyNumbers : \E a \in ApplyAmounts :
            ApplyOrderAccrualCall(w, n, a)
    \/ \E w \in Workers : ApplyBegin(w)
    \/ \E w \in Workers : ApplyCommit(w)
    \/ \E w \in Workers : Sleep(w)

SpecApply == Init /\ [][NextApply]_vars

\* Answers other than 200: user 1 submits "18"; workers 1 and 2 process the
\* queue while the clock advances; the scoring service answers 204, 429 (with
\* or without Retry-After), 500 or 503, or 200 PROCESSED with an accrual, so
\* that a number a worker still holds may already have left the queue.
Non200Responses ==
    {r \in TransientResponses \cup RateLimitResponses : r.code \notin {0, 200}}

NextNon200 ==
    \/ SubmitOrder(1, 1, Number18)
    \/ SubmitGet(1)
    \/ SubmitCreate(1)
    \/ SubmitUpsert(1)
    \/ Tick
    \/ \E w \in {1, 2} : WaitIfRateLimited(w)
    \/ \E w \in {1, 2} : ClaimSelect(w)
    \/ \E w \in {1, 2} : ClaimCommit(w)
    \/ \E w \in {1, 2} : ProcessTransient(w)
    \/ \E w \in {1, 2} : ProcessRateLimited(w)
    \/ \E w \in {1, 2} : ProcessRequeue(w)
    \/ \E w \in {1, 2} : ApplyBegin(w)
    \/ \E w \in {1, 2} : ApplyCommit(w)
    \/ \E w \in {1, 2} : Sleep(w)
    \/ \E w \in {1, 2} : \E resp \in Non200Responses : DoGet(w, resp)
    \/ \E w \in {1, 2} : \E a \in AccrualValues :
            DoGet(w, Response(200, "PROCESSED", Some(a), NULL))

SpecNon200 == Init /\ [][NextNon200]_vars

\* Retry-After: user 1 submits "18"; workers 1 and 2 process the queue while
\* the clock advances and the scoring service answers 429 with any
\* Retry-After header of at most MaxHeaderLen characters ("" is the missing
\* header).
MaxHeaderLen == 2
HeaderAlphabet == {48, 49, 50, 32, 43, 45, 97}
RetryAfterHeaders == SeqUpTo(HeaderAlphabet, MaxHeaderLen)

NextRetryAfter ==
    \/ SubmitOrder(1, 1, Number18)
    \/ SubmitGet(1)
    \/ SubmitCreate(1)
    \/ SubmitUpsert(1)
    \/ Tick
    \/ \E w \in {1, 2} : WaitIfRateLimited(w)
    \/ \E w \in {1, 2} : ClaimSelect(w)
    \/ \E w \in {1, 2} : ClaimCommit(w)
    \/ \E w \in {1, 2} : ProcessRateLimited(w)
    \/ \E w \in {1, 2} : ProcessRequeue(w)
    \/ \E w \in {1, 2} : Sleep(w)
    \/ \E w \in {1, 2} : \E h \in RetryAfterHeaders : DoGet(w, Response(429, "", NULL, h))

SpecRetryAfter == Init /\ [][NextRetryAfter]_vars

\* Errors in the loop: user 1 submits "18"; workers 1 and 2 run, each
\* scheduled again and again; the scoring service fails to answer or answers
\* 204, 200 PROCESSED with an accrual or 200 INVALID; any store call of a
\* worker may fail; the context may be cancelled.
LoopAnswers ==
    {Response(0, "", NULL, NULL), Response(204, "", NULL, NULL),
     Response(200, "INVALID", NULL, NULL)}
        \cup {Response(200, "PROCESSED", Some(a), NULL) : a \in AccrualValues}

LoopWorker(w) ==
    \/ WaitIfRateLimited(w)
    \/ ClaimSelect(w)
    \/ ClaimCommit(w)
    \/ \E resp \in LoopAnswers : DoGet(w, resp)
    \/ ProcessTransient(w)
    \/ ApplyBegin(w)
    \/ ApplyCommit(w)
    \/ ProcessFinal(w)
    \/ ProcessDelete(w)
    \/ WorkerStoreError(w)
    \/ WorkerCancelled(w)
    \/ WorkerExit(w)
    \/ Sleep(w)

NextLoop ==
    \/ SubmitOrder(1, 1, Number18)
    \/ SubmitGet(1)
    \/ SubmitCreate(1)
    \/ SubmitUpsert(1)
    \/ Cancel
    \/ \E w \in {1, 2} : LoopWorker(w)

SpecLoop ==
    /\ Init
    /\ [][NextLoop]_vars
    /\ \A w \in {1, 2} : WF_vars(LoopWorker(w))

\* Waiting for the rate limit: user 1 submits "18"; the workers process the
\* queue while the clock advances, the scoring service answers 429 with
\* Retry-After: 1 or without the header, and the context may be cancelled. A
\* worker that finds the deadline ahead waits on its timer.
WaitWorker(w) ==
    \/ WaitIfRateLimited(w)
    \/ WaitStart(w)
    \/ WaitTimer(w)
    \/ WaitCancelled(w)
    \/ ClaimSelect(w)
    \/ ClaimCommit(w)
    \/ \E resp \in RateLimitResponses : DoGet(w, resp)
    \/ ProcessRateLimited(w)
    \/ ProcessRequeue(w)
    \/ Sleep(w)
    \/ WorkerCancelled(w)
    \/ WorkerExit(w)

NextWait ==
    \/ SubmitOrder(1, 1, Number18)
    \/ SubmitGet(1)
    \/ SubmitCreate(1)
    \/ SubmitUpsert(1)
    \/ Tick
    \/ Cancel
    \/ \E w \in Workers : WaitWorker(w)

SpecWait == Init /\ [][NextWait]_vars

\* Row locks: user 1 submits "18" and asks twice to withdraw 50 against "26";
\* workers 1 and 2 process the queue, the scoring service answers 200
\* PROCESSED with an accrual, and ApplyOrderAccrual takes its locks one
\* statement at a time. No store call fails and nothing is cancelled, so a
\* transaction ends only by its own commit or rollback.
LockWorker(w) ==
    \/ WaitIfRateLimited(w)
    \/ ClaimSelect(w)
    \/ ClaimCommit(w)
    \/ \E a \in AccrualValues : DoGet(w, Response(200, "PROCESSED", Some(a), NULL))
    \/ ApplyBegin(w)
    \/ ApplyUpdateUser(w)
    \/ ApplyCommit(w)
    \/ Sleep(w)

LockWithdraw(r) ==
    \/ WithdrawCall(r, 1, Number26, 50)
    \/ WithdrawSelect(r)
    \/ WithdrawCommit(r)

NextLocks ==
    \/ SubmitOrder(1, 1, Number18)
    \/ SubmitGet(1)
    \/ SubmitCreate(1)
    \/ SubmitUpsert(1)
    \/ \E w \in {1, 2} : LockWorker(w)
    \/ \E r \in WdIds : LockWithdraw(r)

\* The goroutines and the requests keep running; a statement that waits for
\* a row lock proceeds once the lock is free.
SpecLocks ==
    /\ Init
    /\ [][NextLocks]_vars
    /\ \A w \in {1, 2} : WF_vars(LockWorker(w))
    /\ \A r \in WdIds : WF_vars(LockWithdraw(r))

\* Validation: one submission of any string of at most MaxRawLen characters
\* over '0', '1', '6', '8', the space, 'a' and U+0660 (ARABIC-INDIC DIGIT
\* ZERO), followed through to its end.
ValidateAlphabet == {48, 49, 54, 56, 32, 97, 1632}

NextValidate ==
    \/ \E u \in Users : \E raw \in SeqUpTo(ValidateAlphabet, MaxRawLen) :
            SubmitOrder(1, u, raw)
    \/ SubmitGet(1)
    \/ SubmitCreate(1)
    \/ SubmitUpsert(1)

SpecValidate == Init /\ [][NextValidate]_vars

\* Luhn called on every string of at most MaxLuhnLen ASCII digits and on
\* the numbers of TestValidateOrderNumber.
Number79927398713 == <<55, 57, 57, 50, 55, 51, 57, 56, 55, 49, 51>>

LuhnInputs == SeqUpTo(AsciiDigits, MaxLuhnLen) \cup {Number79927398713}

LuhnCall(number) ==
    /\ luhnOut = NULL
    /\ luhnIn' = number
    /\ luhnOut' = Some(Luhn(number))
    /\ UNCHANGED <<storeVars, rateLimitUntil, now, wk, sub, wd, pool, authVars, mem>>

NextLuhn == \E number \in LuhnInputs : LuhnCall(number)

SpecLuhn == Init /\ [][NextLuhn]_vars

----------------------------------------------------------------------------
(* Claims *)

\* C1: every order whose accrual_applied flag is true has been credited to
\* its owner's balance exactly once.
C1_CreditedExactlyOnce ==
    \A n \in DOMAIN orders : orders[n].accrual_applied => credits[n] = 1

\* C2: when the order already has accrual_applied = true, ApplyOrderAccrual
\* for a further 200 PROCESSED answer leaves every balance and the order row
\* as they are and only deletes the queue entry; no step credits an order
\* whose flag is set.
C2_AppliedAccrualSkipped ==
    [][ /\ \A w \in Workers :
            (/\ wk[w].pc = "apply"
             /\ wk'[w].pc = "sleep"
             /\ orders[wk[w].number].accrual_applied)
            => /\ users' = users
               /\ orders' = orders
               /\ queue' = [n \in DOMAIN queue \ {wk[w].number} |-> queue[n]]
        /\ \A n \in DOMAIN orders :
            orders[n].accrual_applied => credits'[n] = credits[n]
      ]_vars

\* A worker has just processed a 200 PROCESSED answer with an accrual for an
\* order that was already applied.
C2_Witness ==
    \E w \in Workers :
        /\ wk[w].pc = "sleep"
        /\ wk[w].applied
        /\ wk[w].resp.code = 200
        /\ wk[w].resp.status = statusProcessed
        /\ wk[w].resp.accrual # NULL
        /\ orders[wk[w].number].accrual_applied
        /\ credits[wk[w].number] = 1
        /\ wk[w].number \notin DOMAIN queue

\* C3: no user's balance is negative in any committed state, whatever the
\* interleaving of withdrawals and accrual applications.
C3_BalanceNonNegative ==
    \A u \in Users : users[u].balance >= 0

\* A user's balance was credited and then withdrawn down to zero.
C3_Witness ==
    \E u \in Users :
        /\ credited[u] > 0
        /\ users[u].withdrawn = credited[u]
        /\ users[u].balance = 0

Finished(r) == wd[r].pc = "done"

\* C4: what a user has withdrawn never exceeds what was credited; of two
\* withdrawals of one user whose amounts together exceed the funds at most
\* one succeeds, and one that did not succeed (and met no store failure)
\* returned ErrInsufficientFunds.
C4_ConcurrentWithdrawals ==
    /\ \A u \in Users : users[u].withdrawn <= credited[u]
    /\ \A r1, r2 \in WdIds :
        (/\ r1 # r2
         /\ Finished(r1) /\ Finished(r2)
         /\ wd[r1].userID = wd[r2].userID
         /\ wd[r1].amount + wd[r2].amount > credited[wd[r1].userID])
        => /\ ~(wd[r1].err = Nil /\ wd[r2].err = Nil)
           /\ wd[r1].err \in {Nil, ErrInsufficientFunds, ErrInfra}
           /\ (wd[r1].err = Nil /\ wd[r2].err # ErrInfra)
                => wd[r2].err = ErrInsufficientFunds

\* Withdrawals of 60 and 50 against a balance of 100: one succeeded, the
\* other returned ErrInsufficientFunds.
C4_Witness ==
    \E r1, r2 \in WdIds :
        /\ Finished(r1) /\ Finished(r2)
        /\ wd[r1].userID = wd[r2].userID
        /\ wd[r1].amount = 60 /\ wd[r2].amount = 50
        /\ wd[r1].balance = 100
        /\ credited[wd[r1].userID] = 100
        /\ wd[r1].err = Nil
        /\ wd[r2].err = ErrInsufficientFunds
        /\ users[wd[r1].userID].balance = 40

\* C5: a withdrawal whose amount is greater than the balance returns
\* ErrInsufficientFunds and changes no balance, no withdrawn total and no
\* withdrawal row.
C5_InsufficientFundsChangesNothing ==
    [][ \A r \in WdIds :
            (/\ wd[r].pc = "locked"
             /\ wd'[r].pc = "done"
             /\ users[wd[r].userID].balance < wd[r].amount)
            => /\ wd'[r].err = ErrInsufficientFunds
               /\ users' = users
               /\ withdrawals' = withdrawals
      ]_vars

\* A withdrawal of more than the (positive) balance has been refused.
C5_Witness ==
    \E r \in WdIds :
        /\ Finished(r)
        /\ wd[r].err = ErrInsufficientFunds
        /\ wd[r].balance > 0
        /\ users[wd[r].userID].balance = wd[r].balance

\* C6: a successful withdrawal of a, 0 < a <= balance, for a Luhn-valid order
\* takes a from the user's balance, adds a to the user's withdrawn total and
\* appends one row (user, order, a), all in one step, and touches no other
\* user; the withdrawn totals and the rows change in no other way.
C6_WithdrawAtomic ==
    [][ (\/ withdrawals' # withdrawals
         \/ \E u \in Users : users'[u].withdrawn # users[u].withdrawn
         \/ \E r \in WdIds : wd[r].pc = "locked" /\ wd'[r].pc = "done" /\ wd'[r].err = Nil)
        => \E r \in WdIds :
            LET u == wd[r].userID
                a == wd[r].amount
            IN /\ wd[r].pc = "locked" /\ wd'[r].pc = "done" /\ wd'[r].err = Nil
               /\ 0 < a /\ a <= users[u].balance
               /\ ValidateOrderNumber(wd[r].order) = Nil
               /\ users' = [users EXCEPT ![u] = [balance |-> users[u].balance - a,
                                                 withdrawn |-> users[u].withdrawn + a]]
               /\ withdrawals' = Append(withdrawals,
                                    [user_id |-> u, order |-> wd[r].order, sum |-> a])
      ]_vars

\* A withdrawal has succeeded while the other user holds a balance.
C6_Witness ==
    \E r \in WdIds : \E v \in Users :
        /\ Finished(r)
        /\ wd[r].err = Nil
        /\ v # wd[r].userID
        /\ users[v].balance > 0
        /\ users[wd[r].userID].withdrawn = wd[r].amount
        /\ Len(withdrawals) = 1

Submitted(s) == sub[s].pc = "done"
HttpStatus(s) == HandleCreateOrderStatus(sub[s].created, sub[s].err)

\* C7: a submission of a number whose order exists and belongs to the same
\* user returns created = false without an error (200) and changes neither
\* the orders nor the queue; the submission that created the order returns
\* created = true (202) when it has queued it, and no number is reported
\* created twice.
C7_IdempotentSubmission ==
    /\ [][ \A s \in SubIds :
            /\ (/\ sub'[s] # sub[s]
                /\ sub[s].pc \in {"get", "create", "requery"}
                /\ sub[s].number \in DOMAIN orders
                /\ orders[sub[s].number].user_id = sub[s].userID)
               => /\ orders' = orders
                  /\ queue' = queue
                  /\ sub'[s].pc \in {"done", "requery"}
                  /\ sub'[s].pc = "done" =>
                        /\ sub'[s].created = FALSE /\ sub'[s].err = Nil
                        /\ HandleCreateOrderStatus(sub'[s].created, sub'[s].err) = 200
            /\ (sub[s].pc = "upsert" /\ sub'[s].pc = "done" /\ sub'[s].err = Nil)
               => /\ sub'[s].created = TRUE
                  /\ HandleCreateOrderStatus(sub'[s].created, sub'[s].err) = 202
                  /\ sub[s].number \in DOMAIN queue'
         ]_vars
    /\ [](\A s1, s2 \in SubIds :
            (s1 # s2 /\ Submitted(s1) /\ Submitted(s2)
             /\ sub[s1].created /\ sub[s2].created)
            => sub[s1].number # sub[s2].number)

\* The same user has submitted the same number twice, 202 then 200, and the
\* order, processed in between, was not queued again.
C7_Witness ==
    \E s1, s2 \in SubIds :
        /\ s1 # s2
        /\ Submitted(s1) /\ Submitted(s2)
        /\ sub[s1].userID = sub[s2].userID
        /\ sub[s1].number = sub[s2].number
        /\ HttpStatus(s1) = 202
        /\ HttpStatus(s2) = 200
        /\ orders[sub[s1].number].accrual_applied
        /\ sub[s1].number \notin DOMAIN queue

\* C8: an order keeps the owner it was created with; a finished submission
\* of a number owned by another user returned ErrOrderOwnedByAnother; every
\* order was created by one submission of its owner, and of the submissions
\* of one number at most one returned created = true.
C8_SingleOwner ==
    /\ [][ /\ \A n \in DOMAIN orders :
               n \in DOMAIN orders' /\ orders'[n].user_id = orders[n].user_id
            /\ \A s \in SubIds :
               (sub[s].pc = "requery" /\ sub'[s].pc = "done"
                /\ orders[sub[s].number].user_id # sub[s].userID)
               => sub'[s].err = ErrOrderOwnedByAnother /\ ~sub'[s].created ]_vars
    /\ [](/\ \A s \in SubIds :
              (Submitted(s) /\ sub[s].number \in DOMAIN orders)
              => (orders[sub[s].number].user_id # sub[s].userID
                    <=> sub[s].err = ErrOrderOwnedByAnother)
          /\ \A n \in DOMAIN orders :
              \E s \in SubIds :
                 /\ sub[s].number = n
                 /\ sub[s].userID = orders[n].user_id
                 /\ sub[s].pc \in {"upsert", "done"}
                 /\ Submitted(s) => sub[s].created \/ sub[s].err = ErrInfra
          /\ \A s1, s2 \in SubIds :
              (s1 # s2 /\ Submitted(s1) /\ Submitted(s2)
               /\ sub[s1].number = sub[s2].number /\ sub[s1].err # ErrInvalidOrderNumber)
              => ~(sub[s1].created /\ sub[s2].created))

\* Two users raced for a new number: both found no order, one created it and
\* the other, refused by CreateOrder, re-queried and got ErrOrderOwnedByAnother.
C8_Witness ==
    \E s1, s2 \in SubIds :
        /\ sub[s1].userID # sub[s2].userID
        /\ sub[s1].number = sub[s2].number
        /\ Submitted(s1) /\ sub[s1].created /\ sub[s1].err = Nil
        /\ Submitted(s2) /\ sub[s2].raced
        /\ sub[s2].err = ErrOrderOwnedByAnother
        /\ HttpStatus(s2) = 409
        /\ orders[sub[s1].number].user_id = sub[s1].userID

AllAsciiDigits(s) == \A i \in 1..Len(s) : s[i] \in AsciiDigits

\* C9: a submission that is not refused with ErrInvalidOrderNumber has a
\* number that, trimmed, is non-empty, made of the ASCII digits 0-9 only and
\* Luhn-valid.
C9_OnlyAsciiDigitNumbersPass ==
    \A s \in SubIds :
        (sub[s].pc # "idle" /\ sub[s].err # ErrInvalidOrderNumber)
        => LET trimmed == TrimSpace(sub[s].raw) IN
           /\ trimmed # <<>>
           /\ AllAsciiDigits(trimmed)
           /\ Luhn(trimmed)

\* The value of the ASCII digit c, doubled and reduced by 9 above 9 when it
\* stands at an even position k counted from the right.
LuhnTerm(c, k) ==
    LET d == c - 48 IN
    IF k % 2 = 1 THEN d ELSE IF 2 * d > 9 THEN 2 * d - 9 ELSE 2 * d

RECURSIVE LuhnSum(_, _)
LuhnSum(s, k) ==
    IF k > Len(s) THEN 0
    ELSE LuhnTerm(s[Len(s) - k + 1], k) + LuhnSum(s, k + 1)

\* C10: for a string of ASCII digits Luhn returns true exactly when the sum
\* of the digits, every second one from the right doubled and reduced by 9
\* above 9, is 0 modulo 10; "0", "18", "000" and "79927398713" are accepted,
\* "1" and "12" are rejected.
C10_LuhnIsChecksum ==
    (luhnOut # NULL /\ AllAsciiDigits(luhnIn))
    => /\ Val(luhnOut) = (LuhnSum(luhnIn, 1) % 10 = 0)
       /\ luhnIn \in {<<48>>, <<49, 56>>, <<48, 48, 48>>, Number79927398713}
            => Val(luhnOut) = TRUE
       /\ luhnIn \in {<<49>>, <<49, 50>>} => Val(luhnOut) = FALSE

\* Luhn has accepted "79927398713", whose doubled digits exceed 9.
C10_Witness ==
    /\ luhnIn = Number79927398713
    /\ luhnOut = Some(TRUE)

\* C11: a scoring request goes out only when the pause every earlier 429
\* asked for (the moment of the 429 plus its Retry-After) is over, whichever
\* worker received the 429.
C11_Backpressure ==
    [][ \A w \in Workers :
            (wk[w].pc = "get" /\ wk'[w].pc = "handle")
            => \A v \in Workers : now >= wk[v].retryAt ]_vars

\* The worker holds a claimed number: from its claim to the end of
\* processNumber.
Processing(w) == wk[w].pc \in {"get", "handle", "apply", "delete", "requeue"}

\* C12: two workers never hold the same claimed number at once.
C12_NoDoubleClaim ==
    \A w1, w2 \in Workers :
        (w1 # w2 /\ Processing(w1) /\ Processing(w2))
        => wk[w1].number # wk[w2].number

\* The order has reached a terminal state: INVALID, or PROCESSED with its
\* accrual applied.
Terminal(n) ==
    \/ orders[n].status = statusInvalid
    \/ orders[n].status = statusProcessed /\ orders[n].accrual_applied

\* C13: an order in a terminal state has no queue entry.
C13_TerminalNotQueued ==
    \A n \in DOMAIN orders : Terminal(n) => n \notin DOMAIN queue

\* C14: no step changes the status of an order that is INVALID or
\* PROCESSED, and no step changes the accrual or the accrual_applied flag of
\* an order whose accrual is applied.
C14_StatusMonotonic ==
    [][ \A n \in DOMAIN orders :
            /\ orders[n].status \in {statusInvalid, statusProcessed}
               => orders'[n].status = orders[n].status
            /\ orders[n].accrual_applied
               => /\ orders'[n].accrual_applied
                  /\ orders'[n].accrual = orders[n].accrual ]_vars

\* C15: when processNumber ends, whatever the outcome, the order is INVALID
\* or PROCESSED, or its queue entry exists with status PROCESSING and a
\* last_check not earlier than the worker's claim.
C15_EntryNeverDiscarded ==
    [][ \A w \in Workers :
            (Processing(w) /\ wk'[w].pc = "sleep")
            => LET n == wk[w].number IN
               \/ orders'[n].status \in {statusInvalid, statusProcessed}
               \/ /\ n \in DOMAIN queue'
                  /\ queue'[n].status = statusProcessing
                  /\ queue'[n].last_check # NULL
                  /\ Val(queue'[n].last_check) >= wk[w].claimedAt ]_vars

\* C16: an order queued while the scoring service answers 200 PROCESSED with
\* accrual 100 for it is eventually PROCESSED with accrual 100 applied, out
\* of the queue, and its owner's balance is the prior balance (0) plus 100;
\* one for which the service answers 200 INVALID is eventually INVALID and out
\* of the queue.
C16_FinalAnswerApplied ==
    /\ (Number18 \in DOMAIN queue)
         ~> (/\ Number18 \in DOMAIN orders
             /\ orders[Number18].status = statusProcessed
             /\ orders[Number18].accrual = Some(100)
             /\ orders[Number18].accrual_applied
             /\ Number18 \notin DOMAIN queue
             /\ users[1].balance = 100)
    /\ (Number26 \in DOMAIN queue)
         ~> (/\ Number26 \in DOMAIN orders
             /\ orders[Number26].status = statusInvalid
             /\ Number26 \notin DOMAIN queue)

\* Both orders have been queued and have reached their final states.
C16_Witness ==
    /\ sub[1].pc = "done" /\ sub[1].created
    /\ sub[2].pc = "done" /\ sub[2].created
    /\ orders[Number18].status = statusProcessed
    /\ orders[Number18].accrual_applied
    /\ orders[Number26].status = statusInvalid
    /\ DOMAIN queue = {}
    /\ users[1].balance = 100

\* The worker holds a 200 answer with a status that is neither PROCESSED nor
\* INVALID.
NonFinalAnswer(w) ==
    /\ wk[w].resp.code = 200
    /\ wk[w].resp.status \notin {statusProcessed, statusInvalid, BadBody}

\* C17: on a 200 answer with a non-terminal status the worker sets the
\* order's status to the upper-cased status reported ("" counts as
\* PROCESSING) and changes no balance, and when it has finished the queue
\* entry is there with status PROCESSING and a last_check.
C17_NonFinalKeepsEntry ==
    [][ \A w \in Workers :
            LET n == wk[w].number IN
            /\ (wk[w].pc = "handle" /\ NonFinalAnswer(w) /\ wk'[w].pc = "requeue")
               => /\ orders'[n].status = wk[w].resp.status
                  /\ wk[w].resp.status \in {statusRegistered, statusProcessing}
                  /\ users' = users
            /\ (wk[w].pc = "requeue" /\ NonFinalAnswer(w) /\ wk'[w].pc = "sleep")
               => /\ n \in DOMAIN queue'
                  /\ queue'[n].status = statusProcessing
                  /\ queue'[n].last_check # NULL
                  /\ users' = users ]_vars

Exited(w) == wk[w].pc = "exited"

\* C18: once the context is cancelled no worker starts another iteration,
\* every worker exits and Wait returns, and it returns only when all workers
\* have exited; a pool of no workers (workers <= 0) starts none and its Wait
\* returns without any cancellation.
C18_Shutdown ==
    /\ pool.cancelled ~> pool.waited
    /\ (pool.workers <= 0) ~> pool.waited
    /\ [](pool.workers <= 0 => \A w \in Workers : wk[w] = IdleWorker)
    /\ [](pool.waited => \A w \in Workers : w <= pool.workers => Exited(w))
    /\ [][ pool.cancelled =>
            \A w \in Workers :
                /\ ~(wk[w].pc = "loop" /\ wk'[w].pc = "claim")
                /\ Exited(w) => wk'[w] = wk[w] ]_vars

\* The default pool was cancelled while the pause of a 429 was not over and
\* a worker held a claimed number; all three workers have exited and Wait
\* has returned.
C18_Witness ==
    /\ pool.workers = AccrualWorkers
    /\ pool.cancelled /\ pool.waited
    /\ \A w \in Workers : Exited(w)
    /\ rateLimitUntil > now
    /\ \E w \in Workers : wk[w].number # <<>>

\* C19: every queue entry has its order row, and a number whose entry was
\* deleted has no entry, whatever the workers and later submissions do.
C19_QueueIrreversible ==
    /\ DOMAIN queue \subseteq DOMAIN orders
    /\ dequeued \cap DOMAIN queue = {}

\* The entry of "18" was deleted; a worker that held the number with a
\* non-final answer has run UpdateProcessingStatus for it, and both
\* submissions of "18" have returned, one of them finding the order.
C19_Witness ==
    /\ Number18 \in dequeued
    /\ \E w \in Workers :
          /\ wk[w].pc = "sleep"
          /\ wk[w].number = Number18
          /\ NonFinalAnswer(w)
    /\ \E s1, s2 \in SubIds :
          /\ Submitted(s1) /\ sub[s1].created
          /\ Submitted(s2) /\ ~sub[s2].created /\ sub[s2].err = Nil

\* The worker holds a 200 answer PROCESSED without an accrual.
ProcessedNoAccrual(w) ==
    /\ wk[w].resp.code = 200
    /\ wk[w].resp.status = statusProcessed
    /\ wk[w].resp.accrual = NULL

\* C20: on 200 PROCESSED without an accrual the worker leaves the order
\* PROCESSED with no accrual, then deletes its queue entry, and neither step
\* changes a user's balance or withdrawn total.
C20_ProcessedWithoutAccrual ==
    [][ \A w \in Workers :
            LET n == wk[w].number IN
            /\ (wk[w].pc = "handle" /\ ProcessedNoAccrual(w) /\ wk'[w].pc = "delete")
               => /\ orders'[n].status = statusProcessed
                  /\ orders'[n].accrual = NULL
                  /\ users' = users
            /\ (wk[w].pc = "delete" /\ ProcessedNoAccrual(w) /\ wk'[w].pc = "sleep")
               => /\ n \notin DOMAIN queue'
                  /\ users' = users ]_vars

\* Some worker's ClaimNextForProcessing commits its claim of n.
ClaimOf(n) ==
    \E w \in Workers :
        wk[w].pc = "claimUpdate" /\ wk[w].number = n /\ wk'[w].pc = "get"

\* C21: under fair scheduling of the workers, an entry that stays in the
\* queue for ever is claimed again and again, whatever happens to the other
\* entries (claimed repeatedly because the scoring service cannot be reached).
C21_Rotation ==
    \A n \in {Number18, Number26} :
        <>[](n \in DOMAIN queue) => []<><<ClaimOf(n)>>_vars

\* "26" has just been claimed while "18", claimed before it and sent back to
\* the queue after a transport error, waits with an older last_check.
C21_Witness ==
    /\ DOMAIN queue = {Number18, Number26}
    /\ queue[Number18].last_check # NULL
    /\ queue[Number26].last_check # NULL
    /\ Val(queue[Number18].last_check) < Val(queue[Number26].last_check)
    /\ \E w \in Workers : wk[w].pc = "get" /\ wk[w].number = Number26
    /\ \A w \in Workers : wk[w].number # Number18

C26_TokenRoundTrip ==
    tok.pc = "validated" =>
        /\ tok.kind \in {"issued", "wrapped"} => tok.out = [id |-> tok.id, err |-> Nil]
        /\ tok.kind = "forged" =>
            LET id == ParseInt(tok.idPart) IN
            IF id = NULL \/ tok.sigPart # signatureForID(AuthManager, Val(id))
            THEN tok.out = [id |-> 0, err |-> ErrInvalidToken]
            ELSE tok.out = [id |-> Val(id), err |-> Nil]
        /\ tok.kind = "raw" => tok.out = [id |-> 0, err |-> ErrInvalidToken]

\* The token issued for 345 was validated and gave 345 back.
C26_Witness ==
    /\ tok.pc = "validated"
    /\ tok.kind = "issued"
    /\ tok.id = 345
    /\ tok.token # <<>>
    /\ tok.out.id = 345

\* The user whose token the request's cookie is, if any.
TokenOwner(q) ==
    {u \in Users : reqs[q].cookie = Some(tokenForUser(AuthManager, u))}

\* C24: a request to a user route without the cookie, or with a token that
\* is not the one issued to a user, is answered 401 and no order, balance
\* or withdraw service is invoked for it and the store is not touched; for
\* the token issued to user u the service is invoked with u and nothing
\* else, and what a read returns is u's.
C24_RoutesRequireToken ==
    /\ [](\A q \in ReqIds :
            /\ reqs[q].pc = "idle" =>
                   sub[q] = IdleSubmit /\ wd[q] = IdleWithdraw /\ reqs[q].called = NULL
            /\ (reqs[q].pc # "idle" /\ TokenOwner(q) = {}) =>
                   /\ reqs[q].pc = "done"
                   /\ reqs[q].status = 401
                   /\ reqs[q].called = NULL
                   /\ reqs[q].body = {}
                   /\ sub[q] = IdleSubmit
                   /\ wd[q] = IdleWithdraw
            /\ (reqs[q].pc # "idle" /\ TokenOwner(q) # {}) =>
                   /\ reqs[q].status # 401
                   /\ {reqs[q].userID} = TokenOwner(q)
                   /\ reqs[q].called # NULL => {Val(reqs[q].called)} = TokenOwner(q)
                   /\ sub[q].pc # "idle" =>
                          reqs[q].route = PostOrders /\ {sub[q].userID} = TokenOwner(q)
                   /\ wd[q].pc # "idle" =>
                          reqs[q].route = PostWithdraw /\ {wd[q].userID} = TokenOwner(q)
                   /\ reqs[q].route = GetOrders =>
                          \A o \in reqs[q].body :
                              o.number \in DOMAIN orders
                              /\ {orders[o.number].user_id} = TokenOwner(q))
    /\ [][ \A q \in ReqIds :
            (reqs[q].pc = "idle" /\ reqs'[q].status = 401) => UNCHANGED storeVars ]_vars

\* One request with the token of user 2 has created an order for user 2,
\* another, carrying the id 2 with the signature of user 1, was answered 401.
C24_Witness ==
    \E q1, q2 \in ReqIds :
        /\ TokenOwner(q1) = {2}
        /\ sub[q1].pc = "done" /\ sub[q1].created
        /\ orders[sub[q1].number].user_id = 2
        /\ reqs[q2].cookie =
              Some(EncodeToString(FormatInt(2) \o <<58>> \o signatureForID(AuthManager, 1)))
        /\ reqs[q2].status = 401

Registered(g) == reg[g].pc = "done"
Blank(s) == \A i \in 1..Len(s) : IsSpace(s[i])

\* C25: no two users have the same login; a registration of a login that
\* exists fails with ErrLoginTaken (409) and one with a blank login or
\* password with ErrInvalidCredentials (400), and neither creates a user;
\* of the registrations of one login at most one succeeds, and one that is
\* refused a login no initial user holds lost it to another registration that
\* succeeded.
C25_LoginsUnique ==
    /\ [](/\ \A u1, u2 \in DOMAIN logins.login :
                u1 # u2 => logins.login[u1] # logins.login[u2]
          /\ DOMAIN users = DOMAIN logins.login
          /\ \A g \in RegIds : Registered(g) =>
                /\ (Blank(reg[g].login) \/ Blank(reg[g].password)) <=>
                        reg[g].err = ErrInvalidCredentials
                /\ reg[g].err = ErrInvalidCredentials =>
                        HandleRegisterStatus(reg[g].err) = 400 /\ reg[g].id = 0
                /\ reg[g].err = ErrLoginTaken =>
                        /\ HandleRegisterStatus(reg[g].err) = 409
                        /\ reg[g].id = 0
                        /\ \E u \in DOMAIN logins.login : logins.login[u] = reg[g].login
                /\ reg[g].err = Nil =>
                        /\ HandleRegisterStatus(reg[g].err) = 200
                        /\ reg[g].id \in DOMAIN logins.login
                        /\ logins.login[reg[g].id] = reg[g].login
                        /\ reg[g].id \notin Users
                        /\ ValidateToken(AuthManager, reg[g].token) = [id |-> reg[g].id, err |-> Nil]
          /\ \A g, h \in RegIds :
                (g # h /\ Registered(g) /\ Registered(h) /\ reg[g].login = reg[h].login) =>
                    ~(reg[g].err = Nil /\ reg[h].err = Nil)
          /\ \A g \in RegIds :
                (Registered(g) /\ reg[g].err = ErrLoginTaken) =>
                    \/ \E u \in Users : logins.login[u] = reg[g].login
                    \/ \E h \in RegIds \ {g} :
                            /\ Registered(h)
                            /\ reg[h].err = Nil
                            /\ reg[h].login = reg[g].login)
    /\ [][ \A g \in RegIds :
            (reg[g].pc # "done" /\ reg'[g].pc = "done" /\ reg'[g].err # Nil)
            => users' = users /\ logins'.login = logins.login ]_vars

\* Two registrations of "c" began before either inserted its row; one was
\* answered 200 and is the only user named "c", the other 409.
C25_Witness ==
    \E g, h \in RegIds :
        /\ Registered(g) /\ Registered(h)
        /\ reg[g].login = <<99>> /\ reg[h].login = <<99>>
        /\ reg[g].began = Cardinality(Users) /\ reg[h].began = Cardinality(Users)
        /\ HandleRegisterStatus(reg[g].err) = 200
        /\ HandleRegisterStatus(reg[h].err) = 409
        /\ Cardinality({u \in DOMAIN logins.login : logins.login[u] = <<99>>}) = 1
        /\ users[reg[g].id] = [balance |-> 0, withdrawn |-> 0]

\* C27: no worker begins ClaimNextForProcessing while a published rate-limit
\* deadline has not passed.
C27_NoClaimWhileRateLimited ==
    [][ \A w \in Workers :
            (wk[w].pc = "claim" /\ wk'[w].pc \in {"claimUpdate", "sleep"})
            => RateLimitPassed ]_vars

\* C28: the rate-limit deadline never moves back; a call of
\* SetRateLimitUntil(t) leaves the later of t and the stored deadline, and
\* nothing else changes it, so it is always the latest t ever passed.
C28_DeadlineMonotonic ==
    [][ /\ rateLimitUntil' >= rateLimitUntil
        /\ \A w \in Workers :
              (wk[w].pc = "handle" /\ wk[w].resp.code = 429 /\ wk'[w].pc = "requeue")
              => LET t == now + parseRetryAfter(wk[w].resp.retryAfter) IN
                 rateLimitUntil' = IF t > rateLimitUntil THEN t ELSE rateLimitUntil
        /\ rateLimitUntil' # rateLimitUntil
              => \E w \in Workers :
                    /\ wk[w].pc = "handle" /\ wk[w].resp.code = 429 /\ wk'[w].pc = "requeue"
                    /\ rateLimitUntil' = now + parseRetryAfter(wk[w].resp.retryAfter) ]_vars

\* A worker has just passed a deadline one second ahead while the deadline
\* published at time 1 by a 429 without Retry-After stands.
C28_Witness ==
    \E w \in Workers :
        /\ wk[w].pc = "requeue"
        /\ wk[w].resp.code = 429
        /\ wk[w].resp.retryAfter = <<49>>
        /\ rateLimitUntil = 1 + DefaultRetryAfter
        /\ now + 1 < rateLimitUntil

\* The queue entries a claim may take: NEW or PROCESSING, and no
\* transaction holds the row's lock.
Eligible ==
    {n \in DOMAIN queue :
        /\ queue[n].status \in {statusNew, statusProcessing}
        /\ ~\E l \in locks : l.tbl = "queue" /\ l.key = n}

\* n was checked no later than m (never checked is oldest).
NotLater(n, m) ==
    \/ queue[n].last_check = NULL
    \/ queue[m].last_check # NULL /\ Val(queue[n].last_check) <= Val(queue[m].last_check)

\* C29: ClaimNextForProcessing returns ErrNoQueueItems exactly when no
\* unlocked entry is NEW or PROCESSING; otherwise it takes an unlocked
\* eligible entry checked no later than any other, nobody changes that
\* entry until the claim commits, and the commit sets its status to
\* PROCESSING and its last_check to the current time and changes no other
\* entry.
C29_ClaimNext ==
    /\ [](\A w \in Workers : wk[w].pc = "claimUpdate" =>
            /\ wk[w].number \in DOMAIN queue
            /\ Lock("queue", wk[w].number, Tx(w)) \in locks)
    /\ [][ \A w \in Workers :
            /\ (wk[w].pc = "claim" /\ wk'[w].pc = "sleep") => Eligible = {}
            /\ (wk[w].pc = "claim" /\ wk'[w].pc = "claimUpdate") =>
                  /\ wk'[w].number \in Eligible
                  /\ \A m \in Eligible : NotLater(wk'[w].number, m)
                  /\ queue' = queue
            /\ (wk[w].pc = "claimUpdate" /\ wk'[w].pc = "claimUpdate") =>
                  /\ wk'[w].number = wk[w].number
                  /\ queue'[wk[w].number] = queue[wk[w].number]
            /\ (wk[w].pc = "claimUpdate" /\ wk'[w].pc = "get") =>
                  /\ DOMAIN queue' = DOMAIN queue
                  /\ queue'[wk[w].number] =
                        [status |-> statusProcessing, last_check |-> Some(now)]
                  /\ \A m \in DOMAIN queue \ {wk[w].number} : queue'[m] = queue[m]
                  /\ ~\E l \in locks' : l.by = Tx(w) ]_vars

\* One worker has claimed "26" while another holds the lock on "18", which
\* was never checked, between its SELECT and its UPDATE.
C29_Witness ==
    \E w1, w2 \in Workers :
        /\ wk[w1].pc = "claimUpdate" /\ wk[w1].number = Number18
        /\ queue[Number18].last_check = NULL
        /\ wk[w2].pc = "get" /\ wk[w2].number = Number26
        /\ queue[Number26] = [status |-> statusProcessing, last_check |-> Some(wk[w2].claimedAt)]

\* C30: ApplyOrderAccrual is all-or-nothing. For an order whose
\* accrual_applied flag is set it deletes the queue entry if there is one,
\* changes nothing else and returns false; otherwise it sets the order to
\* PROCESSED with the amount and the flag, adds the amount to the owner's
\* balance, deletes the queue entry and returns true, all in the one step of
\* its commit; for a number without an order it returns ErrOrderNotFound and
\* changes nothing. No step changes an existing order or a balance except
\* such a commit, and the row a call has read stays as read until it commits.
C30_ApplyAllOrNothing ==
    [][ /\ \A w \in Workers :
            LET n == wk[w].number
                a == Val(wk[w].resp.accrual)
            IN
            /\ (wk[w].pc = "handle" /\ wk'[w] # wk[w] /\ n \notin DOMAIN orders) =>
                    /\ wk'[w].pc = "sleep"
                    /\ wk'[w].ret = ErrOrderNotFound
                    /\ <<users, orders, queue, withdrawals, locks>>'
                            = <<users, orders, queue, withdrawals, locks>>
            /\ (wk[w].pc = "handle" /\ wk'[w].pc = "sleep") => n \notin DOMAIN orders
            /\ (wk[w].pc = "handle" /\ wk'[w].pc = "apply") =>
                    /\ n \in DOMAIN orders
                    /\ <<users, orders, queue, withdrawals>>'
                            = <<users, orders, queue, withdrawals>>
            /\ (wk[w].pc = "apply" /\ wk'[w].pc = "apply") => orders'[n] = orders[n]
            /\ (wk[w].pc = "apply" /\ wk'[w].pc # "apply") =>
                    /\ wk'[w].pc = "sleep"
                    /\ withdrawals' = withdrawals
                    /\ queue' = [m \in DOMAIN queue \ {n} |-> queue[m]]
                    /\ IF orders[n].accrual_applied
                       THEN /\ wk'[w].ret = "false"
                            /\ orders' = orders
                            /\ users' = users
                       ELSE /\ wk'[w].ret = "true"
                            /\ orders' = [orders EXCEPT ![n] =
                                    [@ EXCEPT !.status = statusProcessed,
                                              !.accrual = Some(a),
                                              !.accrual_applied = TRUE]]
                            /\ users' = [users EXCEPT ![orders[n].user_id].balance = @ + a]
        /\ ((\E n \in DOMAIN orders : orders'[n] # orders[n]) \/ users' # users) =>
                \E w \in Workers :
                    /\ wk[w].pc = "apply"
                    /\ wk'[w].pc = "sleep"
                    /\ ~orders[wk[w].number].accrual_applied
      ]_vars

\* The three outcomes side by side: one caller has applied 100 to order 18,
\* another found the flag set and returned false, a third asked for order 26,
\* which does not exist.
C30_Witness ==
    \E w1, w2, w3 \in Workers :
        /\ wk[w1].pc = "sleep" /\ wk[w1].number = Number18 /\ wk[w1].ret = "true"
        /\ wk[w1].resp.accrual = Some(100)
        /\ wk[w2].pc = "sleep" /\ wk[w2].number = Number18 /\ wk[w2].ret = "false"
        /\ wk[w2].resp.accrual = Some(50)
        /\ wk[w3].pc = "sleep" /\ wk[w3].number = Number26 /\ wk[w3].ret = ErrOrderNotFound
        /\ orders[Number18].status = statusProcessed
        /\ orders[Number18].accrual = Some(100)
        /\ orders[Number18].accrual_applied
        /\ users[1].balance = 100
        /\ Number18 \notin DOMAIN queue
        /\ Number26 \notin DOMAIN orders

\* C31: a call of UpdateOrderStatus (the worker makes one for every 200
\* answer but PROCESSED with an accrual) sets accrual_applied to false when
\* the status it writes is not PROCESSED and leaves the flag as it was when
\* the status is PROCESSED.
C31_FlagResetOnlyOffProcessed ==
    [][ \A w \in Workers :
            LET n == wk[w].number IN
            (/\ wk[w].pc = "handle"
             /\ wk[w].resp.code = 200
             /\ wk'[w].pc \in {"delete", "requeue"}
             /\ n \in DOMAIN orders)
            => orders'[n].accrual_applied =
                    IF wk[w].resp.status = statusProcessed
                    THEN orders[n].accrual_applied
                    ELSE FALSE ]_vars

\* The worker holds an answer with a code other than 200.
Non200(w) == wk[w].resp.code \notin {0, 200}

\* The queue after UpdateProcessingStatus(n, PROCESSING, now): the entry of n,
\* if there is one, holds PROCESSING and the current time; no entry is added
\* or removed.
Touched(n) ==
    /\ DOMAIN queue' = DOMAIN queue
    /\ \A m \in DOMAIN queue :
            queue'[m] = IF m = n
                        THEN [status |-> statusProcessing, last_check |-> Some(now)]
                        ELSE queue[m]

Unsigned(h) ==
    LET v == TrimSpace(h) IN IF v # <<>> /\ v[1] = 43 THEN Tail(v) ELSE v
WholeSeconds(h) ==
    /\ Unsigned(h) # <<>>
    /\ \A i \in 1..Len(Unsigned(h)) : Unsigned(h)[i] \in AsciiDigits

\* C33: on a 429 the worker passes now + Retry-After to SetRateLimitUntil
\* when the header is a whole number of seconds and now + 60 when it is
\* missing or anything else; the 60 seconds never stand in for a whole number
\* the header gave.
C33_RetryAfterPause ==
    [][ \A w \in Workers :
            (wk[w].pc = "handle" /\ wk[w].resp.code = 429 /\ wk'[w].pc = "requeue")
            => LET h == wk[w].resp.retryAfter
                   pause == IF WholeSeconds(h) THEN DigitsValue(Unsigned(h))
                            ELSE DefaultRetryAfter
                   t == now + pause
               IN  rateLimitUntil' = IF t > rateLimitUntil THEN t ELSE rateLimitUntil
      ]_vars

\* C34: a worker exits only once the context is cancelled. Whatever ends its
\* claim or its processing of a number (no item, a failed claim, a failed
\* store call, a transport error, any answer) takes it to its sleep, from its
\* sleep it only goes to the top of the loop (or exits, when cancelled), and
\* under fair scheduling a sleeping worker does reach the top of the loop
\* again unless the context is cancelled.
C34_ExitOnlyOnCancel ==
    /\ [][ \A w \in Workers :
            /\ (~Exited(w) /\ wk'[w].pc = "exited") =>
                    /\ pool.cancelled
                    /\ wk[w].pc \in {"loop", "sleep"}
            /\ (wk[w].pc \in {"claim", "claimUpdate"} \/ Processing(w)) =>
                    wk'[w].pc \notin {"loop", "exited"}
            /\ (wk[w].pc = "sleep" /\ wk'[w].pc # "sleep") =>
                    wk'[w].pc \in {"loop", "exited"} ]_vars
    /\ \A w \in {1, 2} :
            (wk[w].pc \in {"claim", "claimUpdate"} \/ Processing(w))
                ~> (wk[w].pc = "sleep")
    /\ \A w \in {1, 2} :
            (wk[w].pc = "sleep") ~> (wk[w].pc = "loop" \/ pool.cancelled)

\* Without any cancellation worker 1 sleeps after ApplyOrderAccrual failed
\* for order 18 (the answer was 200 PROCESSED with an accrual and the order
\* is still NEW and queued), and worker 2 sleeps after a claim that returned
\* no number.
C34_Witness ==
    /\ ~pool.cancelled
    /\ wk[1].pc = "sleep"
    /\ wk[1].number = Number18
    /\ wk[1].resp.code = 200
    /\ wk[1].resp.status = statusProcessed
    /\ wk[1].resp.accrual # NULL
    /\ Number18 \in DOMAIN orders
    /\ orders[Number18].status = statusNew
    /\ Number18 \in DOMAIN queue
    /\ wk[2].pc = "sleep"
    /\ wk[2].number = <<>>

\* C35: WaitIfRateLimited returns nil (in runWorker and in DoGet) only at a
\* moment that is not earlier than the deadline in force at that moment; a
\* caller whose timer fires reads the deadline again before it returns, so
\* a deadline extended during its wait is waited for as well; it returns
\* an error only when the context is cancelled.
C35_WaitsForDeadlineInForce ==
    [][ \A w \in Workers :
            /\ ((wk[w].pc = "loop" /\ wk'[w].pc = "claim")
                    \/ (wk[w].pc = "get" /\ wk'[w].pc = "handle"))
                => (rateLimitUntil = 0 \/ now >= rateLimitUntil)
            /\ (wk[w].pc = "wait" /\ wk'[w].pc # "wait") =>
                    \/ wk'[w].pc = "loop" /\ now >= wk[w].until
                    \/ wk'[w].pc = "exited" /\ pool.cancelled
            /\ (wk[w].pc = "loop" /\ wk'[w].pc = "wait") =>
                    /\ wk'[w].until = rateLimitUntil
                    /\ now < rateLimitUntil ]_vars

\* A worker's timer, set for the deadline 2, is due at time 2, but another
\* worker has meanwhile moved the deadline to 61.
C35_Witness ==
    \E w \in Workers :
        /\ wk[w].pc = "wait"
        /\ wk[w].until = 2
        /\ now = 2
        /\ rateLimitUntil = 1 + DefaultRetryAfter
        /\ ~pool.cancelled

\* The sum of the Withdrawal rows of user u among the first k rows
RECURSIVE WithdrawnRows(_, _)
WithdrawnRows(u, k) ==
    IF k = 0 THEN 0
    ELSE WithdrawnRows(u, k - 1)
            + (IF withdrawals[k].user_id = u THEN withdrawals[k].sum ELSE 0)

\* The sum of the accruals of the orders in S that belong to u and have
\* accrual_applied set
RECURSIVE AppliedAccruals(_, _)
AppliedAccruals(u, S) ==
    IF S = {} THEN 0
    ELSE LET n == CHOOSE m \in S : TRUE IN
         AppliedAccruals(u, S \ {n})
            + (IF /\ orders[n].user_id = u
                  /\ orders[n].accrual_applied
                  /\ orders[n].accrual # NULL
               THEN Val(orders[n].accrual) ELSE 0)

\* C36: in every committed state each user's withdrawn total is the sum of
\* the user's Withdrawal rows, and balance + withdrawn is the sum of the
\* accruals of the user's orders whose accrual_applied flag is set.
C36_BookkeepingConserved ==
    \A u \in DOMAIN users :
        /\ users[u].withdrawn = WithdrawnRows(u, Len(withdrawals))
        /\ users[u].balance + users[u].withdrawn = AppliedAccruals(u, DOMAIN orders)

\* The first half of C36 alone
WithdrawnIsSumOfRows ==
    \A u \in DOMAIN users : users[u].withdrawn = WithdrawnRows(u, Len(withdrawals))

\* The SubmitOrder call that created the order of n has not returned yet.
Submitting(n) ==
    \E s \in SubIds : sub[s].pc = "upsert" /\ sub[s].number = n

\* C37: every order whose status is neither INVALID nor PROCESSED has a
\* queue entry once the submission that created it has returned.
C37_NoOrderStranded ==
    \A n \in DOMAIN orders :
        (orders[n].status \notin {statusInvalid, statusProcessed} /\ ~Submitting(n))
            => n \in DOMAIN queue

\* The worker's store transaction is open (a claim between its SELECT and its
\* commit, ApplyOrderAccrual from its first statement on).
InWorkerTx(w) ==
    \/ wk[w].pc \in {"claimUpdate", "apply", "applyUser"}
    \/ /\ wk[w].pc = "handle"
       /\ wk[w].resp.code = 200
       /\ wk[w].resp.status = statusProcessed
       /\ wk[w].resp.accrual # NULL

\* The withdrawal's transaction is open.
InWithdrawTx(r) == wd[r].pc \in {"begin", "locked"}

\* C38: the store transactions never deadlock. Whenever a transaction is
\* open, some open transaction can take its next statement (there is no
\* cycle of transactions waiting for each other's row locks), and under fair
\* scheduling every open transaction ends.
C38_NoDeadlock ==
    /\ []( ((\E w \in {1, 2} : InWorkerTx(w)) \/ (\E r \in WdIds : InWithdrawTx(r)))
            => ENABLED ( \/ \E w \in {1, 2} :
                               \/ ClaimCommit(w)
                               \/ ApplyBegin(w)
                               \/ ApplyUpdateUser(w)
                               \/ ApplyCommit(w)
                         \/ \E r \in WdIds : WithdrawSelect(r) \/ WithdrawCommit(r) ) )
    /\ \A w \in {1, 2} : InWorkerTx(w) ~> ~InWorkerTx(w)
    /\ \A r \in WdIds : InWithdrawTx(r) ~> ~InWithdrawTx(r)

\* A chain of waits: a withdrawal waits for the row of user 1, which worker
\* w1's ApplyOrderAccrual holds while its DELETE waits for the queue row of
\* order 18, which worker w2's claim has locked; the other withdrawal has
\* begun as well.
C38_Witness ==
    \E w1, w2 \in {1, 2} : \E r \in WdIds :
        /\ wd[r].pc = "begin" /\ wd[r].userID = 1
        /\ wk[w1].pc = "applyUser" /\ wk[w1].number = Number18
        /\ Lock("orders", Number18, Tx(w1)) \in locks
        /\ Lock("users", 1, Tx(w1)) \in locks
        /\ wk[w2].pc = "claimUpdate" /\ wk[w2].number = Number18
        /\ Lock("queue", Number18, Tx(w2)) \in locks

----------------------------------------------------------------------------
(* The in-memory order store of the worker tests (memoryOrderRepo) next to
   PGOrderRepository *)

MaxCalls == 4

\* memoryOrderRepo.ClaimNextForProcessing: the entries the loop over the map
\* may end on: status NEW or PROCESSING, none strictly before it, a zero
\* lastCheck counting as the epoch.
memoryOrderRepo_SortKey(n) ==
    IF mem.queue[n].last_check = NULL THEN 0 ELSE Val(mem.queue[n].last_check)

memoryOrderRepo_ClaimCandidates ==
    LET eligible == {n \in DOMAIN mem.queue :
                        mem.queue[n].status \in {"NEW", "PROCESSING"}}
    IN  {n \in eligible :
            \A m \in eligible : memoryOrderRepo_SortKey(n) <= memoryOrderRepo_SortKey(m)}

\* ... and the queue after it marked the selected entry.
memoryOrderRepo_ClaimNextForProcessing(selected) ==
    [mem.queue EXCEPT ![selected] = [status |-> "PROCESSING", last_check |-> Some(now)]]

\* memoryOrderRepo.UpdateOrderStatus: ErrOrderNotFound for an unknown number;
\* a nil accrual clears the accrual; the flag is reset unless the status is
\* PROCESSED.
memoryOrderRepo_UpdateOrderStatus(number, status, accrual) ==
    IF number \notin DOMAIN mem.orders
    THEN [err |-> ErrOrderNotFound, orders |-> mem.orders]
    ELSE [err |-> Nil,
          orders |-> [mem.orders EXCEPT
                        ![number].status = status,
                        ![number].accrual = accrual,
                        ![number].accrual_applied =
                            IF status # statusProcessed THEN FALSE ELSE @]]

\* memoryOrderRepo.UpdateProcessingStatus: ErrOrderNotFound when the number is
\* not queued.
memoryOrderRepo_UpdateProcessingStatus(number, status, checkedAt) ==
    IF number \notin DOMAIN mem.queue
    THEN [err |-> ErrOrderNotFound, queue |-> mem.queue]
    ELSE [err |-> Nil,
          queue |-> [mem.queue EXCEPT
                        ![number] = [status |-> status, last_check |-> Some(checkedAt)]]]

\* memoryOrderRepo.DeleteProcessingEntry
memoryOrderRepo_DeleteProcessingEntry(number) ==
    [n \in DOMAIN mem.queue \ {number} |-> mem.queue[n]]

\* memoryOrderRepo.ApplyOrderAccrual: the three maps and the result.
memoryOrderRepo_ApplyOrderAccrual(number, accrual) ==
    IF number \notin DOMAIN mem.orders
    THEN [val |-> FALSE, err |-> ErrOrderNotFound,
          orders |-> mem.orders, queue |-> mem.queue, balances |-> mem.balances]
    ELSE IF mem.orders[number].accrual_applied
    THEN [val |-> FALSE, err |-> Nil,
          orders |-> mem.orders,
          queue |-> memoryOrderRepo_DeleteProcessingEntry(number),
          balances |-> mem.balances]
    ELSE LET u == mem.orders[number].user_id IN
         [val |-> TRUE, err |-> Nil,
          orders |-> [mem.orders EXCEPT ![number].status = statusProcessed,
                                        ![number].accrual = Some(accrual),
                                        ![number].accrual_applied = TRUE],
          queue |-> memoryOrderRepo_DeleteProcessingEntry(number),
          balances |-> [v \in DOMAIN mem.balances \cup {u} |->
                            (IF v \in DOMAIN mem.balances THEN mem.balances[v] ELSE 0)
                            + (IF v = u THEN accrual ELSE 0)]]

\* No transaction is open: the calls below come one after another.
NoCallOpen == locks = {} /\ mem.calls < MaxCalls

\* setupOrder of the worker tests, and the same rows through CreateOrder and
\* UpsertProcessing: user 1's order, NEW, queued.
setupOrder(number) ==
    /\ NoCallOpen
    /\ number \notin DOMAIN orders
    /\ orders' = CreateOrder([number |-> number, user_id |-> 1, status |-> statusNew]).orders
    /\ queue' = UpsertProcessing(number, statusNew)
    /\ credits' = [n \in DOMAIN orders' |-> IF n \in DOMAIN credits THEN credits[n] ELSE 0]
    /\ mem' = [mem EXCEPT
                !.orders = [n \in DOMAIN mem.orders \cup {number} |->
                              IF n = number
                              THEN [user_id |-> 1, status |-> "NEW",
                                    accrual |-> NULL, accrual_applied |-> FALSE]
                              ELSE mem.orders[n]],
                !.queue = [n \in DOMAIN mem.queue \cup {number} |->
                              IF n = number THEN [status |-> "NEW", last_check |-> NULL]
                              ELSE mem.queue[n]],
                !.balances = [v \in DOMAIN mem.balances \cup {1} |->
                              IF v \in DOMAIN mem.balances THEN mem.balances[v] ELSE 0],
                !.calls = @ + 1, !.ret = NoResult, !.pgRet = NoResult]
    /\ UNCHANGED <<users, withdrawals, locks, credited, dequeued, rateLimitUntil, now,
                   wk, sub, wd, pureVars, pool, authVars>>

\* UpdateOrderStatus on both stores.
BothUpdateOrderStatus(number, status, accrual) ==
    LET m == memoryOrderRepo_UpdateOrderStatus(number, status, accrual) IN
    /\ NoCallOpen
    /\ orders' = UpdateOrderStatus(number, status, accrual)
    /\ mem' = [mem EXCEPT !.orders = m.orders, !.calls = @ + 1,
                          !.ret = [NoResult EXCEPT !.err = m.err], !.pgRet = NoResult]
    /\ UNCHANGED <<users, queue, withdrawals, locks, credits, credited, dequeued,
                   rateLimitUntil, now, wk, sub, wd, pureVars, pool, authVars>>

\* UpdateProcessingStatus on both stores, with the clock's time.
BothUpdateProcessingStatus(number, status) ==
    LET m == memoryOrderRepo_UpdateProcessingStatus(number, status, now) IN
    /\ NoCallOpen
    /\ queue' = UpdateProcessingStatus(number, status, now)
    /\ mem' = [mem EXCEPT !.queue = m.queue, !.calls = @ + 1,
                          !.ret = [NoResult EXCEPT !.err = m.err], !.pgRet = NoResult]
    /\ UNCHANGED <<users, orders, withdrawals, locks, credits, credited, dequeued,
                   rateLimitUntil, now, wk, sub, wd, pureVars, pool, authVars>>

\* DeleteProcessingEntry on both stores.
BothDeleteProcessingEntry(number) ==
    /\ NoCallOpen
    /\ queue' = DeleteProcessingEntry(number)
    /\ dequeued' = dequeued \cup ({number} \cap DOMAIN queue)
    /\ mem' = [mem EXCEPT !.queue = memoryOrderRepo_DeleteProcessingEntry(number),
                          !.calls = @ + 1, !.ret = NoResult, !.pgRet = NoResult]
    /\ UNCHANGED <<users, orders, withdrawals, locks, credits, credited,
                   rateLimitUntil, now, wk, sub, wd, pureVars, pool, authVars>>

\* ClaimNextForProcessing on both stores: each returns one of its candidates,
\* the same one where they have one in common, or ErrNoQueueItems.
BothClaimNextForProcessing ==
    /\ NoCallOpen
    /\ \E p \in ClaimCandidates \cup {<<>>} : \E m \in memoryOrderRepo_ClaimCandidates \cup {<<>>} :
        /\ p = <<>> <=> ClaimCandidates = {}
        /\ m = <<>> <=> memoryOrderRepo_ClaimCandidates = {}
        /\ ClaimCandidates \cap memoryOrderRepo_ClaimCandidates # {} => p = m
        /\ queue' = IF p = <<>> THEN queue
                    ELSE [queue EXCEPT ![p] =
                            [status |-> statusProcessing, last_check |-> Some(now)]]
        /\ mem' = [mem EXCEPT
                    !.queue = IF m = <<>> THEN @ ELSE memoryOrderRepo_ClaimNextForProcessing(m),
                    !.calls = @ + 1,
                    !.ret = [number |-> m, ok |-> FALSE, err |-> IF m = <<>> THEN ErrNoQueueItems ELSE Nil],
                    !.pgRet = [number |-> p, ok |-> FALSE,
                               err |-> IF p = <<>> THEN ErrNoQueueItems ELSE Nil]]
    /\ UNCHANGED <<users, orders, withdrawals, locks, credits, credited, dequeued,
                   rateLimitUntil, now, wk, sub, wd, pureVars, pool, authVars>>

\* ApplyOrderAccrual on both stores.
BothApplyOrderAccrual(number, accrual) ==
    LET m == memoryOrderRepo_ApplyOrderAccrual(number, accrual)
        found == number \in DOMAIN orders
        applied == found /\ orders[number].accrual_applied
    IN
    /\ NoCallOpen
    /\ orders' = IF found THEN ApplyOrderAccrualOrders(number, accrual, applied) ELSE orders
    /\ users' = IF found
                THEN ApplyOrderAccrualUsers(orders[number].user_id, accrual, applied)
                ELSE users
    /\ queue' = IF found THEN DeleteProcessingEntry(number) ELSE queue
    /\ dequeued' = IF found THEN dequeued \cup ({number} \cap DOMAIN queue) ELSE dequeued
    /\ credits' = IF found /\ ~applied THEN [credits EXCEPT ![number] = @ + 1] ELSE credits
    /\ credited' = IF found /\ ~applied
                   THEN [credited EXCEPT ![orders[number].user_id] = @ + accrual]
                   ELSE credited
    /\ mem' = [mem EXCEPT
                !.orders = m.orders, !.queue = m.queue, !.balances = m.balances,
                !.calls = @ + 1,
                !.ret = [number |-> <<>>, ok |-> m.val, err |-> m.err],
                !.pgRet = [number |-> <<>>, ok |-> found /\ ~applied,
                           err |-> IF found THEN Nil ELSE ErrOrderNotFound]]
    /\ UNCHANGED <<withdrawals, locks, rateLimitUntil, now, wk, sub, wd, pureVars,
                   pool, authVars>>

\* The two stores side by side: orders "18" and "26" are set up, and the five
\* calls arrive in any order with any of these arguments while the clock
\* advances.
StoreNumbers == {Number18, Number26}
StoreStatuses == {statusProcessing, statusInvalid, statusProcessed}
StoreAccruals == {NULL, Some(50)}

NextStores ==
    \/ \E n \in StoreNumbers : setupOrder(n)
    \/ \E n \in StoreNumbers : \E st \in StoreStatuses : \E a \in StoreAccruals :
            BothUpdateOrderStatus(n, st, a)
    \/ \E n \in StoreNumbers : \E st \in StoreStatuses : BothUpdateProcessingStatus(n, st)
    \/ \E n \in StoreNumbers : BothDeleteProcessingEntry(n)
    \/ BothClaimNextForProcessing
    \/ \E n \in StoreNumbers : BothApplyOrderAccrual(n, 50)
    \/ Tick

SpecStores == Init /\ [][NextStores]_vars

\* What the two stores show: the orders, the queue, and user balances.
SameOrders == mem.orders = orders
SameQueue == mem.queue = queue
SameBalances == \A u \in DOMAIN mem.balances : mem.balances[u] = users[u].balance
SameResults == mem.ret = mem.pgRet

\* C39: the in-memory order store and the PostgreSQL order store, driven by
\* the same calls of UpdateOrderStatus, UpdateProcessingStatus,
\* ApplyOrderAccrual, ClaimNextForProcessing and DeleteProcessingEntry, show
\* the same order status, accrual and accrual_applied, the same queue, the
\* same balances and the same results.
C39_StoresEquivalent ==
    /\ SameOrders
    /\ SameQueue
    /\ SameBalances
    /\ SameResults

====
